---- MODULE Spec2Model ----
(***************************************************************************)
(* Lumis CLI (src/lumis.py): the tool-calling agent loop.                  *)
(*                                                                         *)
(* The module models the permission gate and the tool executor, the        *)
(* multi-credential backend client chat_poe, context trimming, the agent   *)
(* loop and the part of the main loop that owns the stored conversation.   *)
(* The specifications share the definitions:                                 *)
(*   SpecExec  a driver that calls execute_tool on arbitrary payloads      *)
(*   SpecPoe   one chat_poe call over a credential list                    *)
(*   SpecLoop  one agent_loop invocation                                   *)
(*   Spec      a session of main: user turns and the slash-commands        *)
(*   SpecTrim     trim_context applied to a conversation                   *)
(*   SpecExtract  extract_tool_calls applied to a response text            *)
(*   SpecTodo, SpecRead, SpecEdit, SpecPatch  drivers of single handlers   *)
(*   SpecSend  chat_poe from the credential storage to the requests        *)
(*   SpecShimmer  the indicator thread around one backend call             *)
(*   SpecPrompt  execute_tool with prompts answered by key presses         *)
(*   SpecIter  one agent_loop iteration on responses with several calls    *)
(*   SpecExecReset  the driver of SpecExec with /reset between calls       *)
(***************************************************************************)
EXTENDS Integers, Sequences, FiniteSets, TLC

VARIABLES
    messages,       \* the conversation list (main's `messages`, agent_loop's `messages`)
    trust_session,  \* global trust_session
    session_todo,   \* global session_todo
    fs,             \* the file system the tool handlers act on
    pc,             \* position of the control thread
    loop_i,         \* agent_loop: loop_i
    response,       \* agent_loop: the response of the current iteration
    tools,          \* agent_loop: tool calls of the response not yet executed
    tool_results,   \* agent_loop: tool_results
    sent,           \* the conversation handed to the last backend call
    turn_start,     \* agent_loop: the conversation it was called with
    backend_calls,  \* backend calls made by the current agent_loop invocation
    iter_execs,     \* execute_tool calls made in the current iteration
    last_exec,      \* observation of the last execute_tool call
    last_iter,      \* observation of the last completed agent_loop iteration
    gated_used,     \* responses holding a destructive call, this invocation
    session_calls,  \* backend calls and writing commands of the session
    key_file,       \* the credential storage (KEYS_FILE)
    settings_file,  \* the stored settings (SETTINGS_FILE)
    conv_files,     \* the stored conversations (CONFIG_DIR / conv_<name>.json)
    settings,       \* main: settings
    keys,           \* chat_poe: keys
    poe_msgs,       \* chat_poe: msgs, the conversation put in the requests
    poe_i,          \* chat_poe: index of the next credential to try (0-based)
    errors,         \* chat_poe: errors
    attempts,       \* chat_poe: the credentials requests were sent with, in order
    poe_result,     \* chat_poe: the returned value
    stop,           \* shimmer_thinking: the event `stop`
    shim_pc,        \* shimmer_thinking: position of the thread running `run`
    shim_i,         \* shimmer_thinking: i, the frames written
    terminal        \* what was written to the terminal, in order, and by whom

vars == <<messages, trust_session, session_todo, fs, pc, loop_i, response, tools,
          tool_results, sent, turn_start, backend_calls, iter_execs, last_exec,
          last_iter, gated_used, session_calls, key_file, settings_file, conv_files,
          settings, keys, poe_msgs,
          poe_i, errors, attempts, poe_result, stop, shim_pc, shim_i, terminal>>

loop_vars == <<loop_i, response, tools, tool_results, sent, turn_start,
               backend_calls, iter_execs, last_iter>>
shim_vars == <<stop, shim_pc, shim_i, terminal>>
\* the files of the configuration directory
config_vars == <<key_file, settings_file, conv_files>>
\* the variables of a backend call: chat_poe's and the indicator's around it
poe_vars == <<config_vars, settings, keys, poe_msgs, poe_i, errors, attempts, poe_result,
              shim_vars>>

(***************************************************************************)
(* Program constants and model bounds                                      *)
(***************************************************************************)
MAX_CONTEXT_MESSAGES == 40
MAX_TOOL_LOOPS == 15
ERRORS_SHOWN == 3
MAX_FILE_SIZE == 500000
LARGE_FILE_SIZE == 400000
TASK_CAP == 8
KEY_CAP == 5

\* model bounds
MaxKeys == 4            \* credentials in the key file
MaxGated == 1           \* responses with a destructive call per agent_loop invocation
MaxSessionCalls == 2    \* backend calls and writing commands per session (Spec)
MaxSystems == 41        \* system messages of a conversation handed to trim_context
MaxOthers == 50         \* other messages of a conversation handed to trim_context
MaxTasks == 9           \* tasks given to one todo create
MaxEdits == 2           \* edits in one edit_file call
MaxPatches == 2         \* patches in one patch_file call
MaxStoredKeys == 6      \* entries of the "keys" list of the credential storage
MaxMoves == 2           \* keys pressed at a prompt before the key that ends it
MaxFrames == 3          \* frames the indicator writes during one backend call
MaxSegs == 3            \* tool-call candidates in a text handed to extract_tool_calls

(***************************************************************************)
(* Values                                                                  *)
(***************************************************************************)
\* A JSON value of a payload field, tagged with its Python type.
JAbsent == [t |-> "absent", s |-> "", n |-> 0]
JNull == [t |-> "null", s |-> "", n |-> 0]
JStr(s) == [t |-> "str", s |-> s, n |-> 0]
JInt(n) == [t |-> "int", s |-> "", n |-> n]
\* a JSON list of strings of the given length (its elements do not matter here)
JList(n) == [t |-> "list", s |-> "", n |-> n]

\* dict.get(key, ""): an absent key reads as the empty string
GetStr(v) == IF v.t = "absent" THEN JStr("") ELSE v

\* Python truthiness
Truthy(v) ==
    CASE v.t = "str" -> v.s # ""
      [] v.t = "int" -> v.n # 0
      [] v.t = "list" -> v.n > 0
      [] OTHER -> FALSE

\* str(v) / f"{v}" of a value
PyStr(v) ==
    CASE v.t = "str" -> v.s
      [] v.t = "int" -> ToString(v.n)
      [] v.t = "null" -> "None"
      [] v.t = "list" -> "[...]"
      [] OTHER -> ""

\* v[:60] is defined for strings and lists only
Sliceable(v) == v.t \in {"str", "list"}

\* the characters of a text joined into one string
RECURSIVE Flat(_)
Flat(cs) == IF cs = <<>> THEN "" ELSE Head(cs) \o Flat(Tail(cs))

\* sep.join(strs)
RECURSIVE Join(_, _)
Join(strs, sep) ==
    IF strs = <<>> THEN ""
    ELSE IF Len(strs) = 1 THEN strs[1]
    ELSE strs[1] \o sep \o Join(Tail(strs), sep)

Max(a, b) == IF a >= b THEN a ELSE b
Min(a, b) == IF a <= b THEN a ELSE b

\* seq[-n:] for n >= 1
LastN(seq, n) ==
    IF Len(seq) <= n THEN seq ELSE SubSeq(seq, Len(seq) - n + 1, Len(seq))

\* seq[:n]
FirstN(seq, n) == SubSeq(seq, 1, Min(n, Len(seq)))

\* a ToolResult; an absent key holds ABSENT
ABSENT == "<absent>"
Result(ok, result, error, tool) ==
    [ok |-> ok, result |-> result, error |-> error, tool |-> tool, truncated |-> FALSE]
Get(v, default) == IF v = ABSENT THEN default ELSE v

NoText == [present |-> FALSE, text |-> <<>>]
Text(cs) == [present |-> TRUE, text |-> cs]

\* a tool-call payload; dict = FALSE is a payload that is not a mapping
Call(tool, path, command, content) ==
    [dict |-> TRUE, tool |-> tool, path |-> path, command |-> command,
     content |-> content, edits |-> <<>>, patches |-> <<>>, pattern |-> <<>>,
     action |-> JAbsent, tasks |-> <<>>, indices |-> <<>>, title |-> JAbsent]
NotADict == [Call(JAbsent, JAbsent, JAbsent, NoText) EXCEPT !.dict = FALSE]

(***************************************************************************)
(* Texts: a file's content is a sequence of one-character strings          *)
(***************************************************************************)
\* the first position at which sub occurs in cs, 0 when it does not occur
RECURSIVE IndexFrom(_, _, _)
IndexFrom(cs, sub, i) ==
    IF i + Len(sub) - 1 > Len(cs) THEN 0
    ELSE IF SubSeq(cs, i, i + Len(sub) - 1) = sub THEN i
    ELSE IndexFrom(cs, sub, i + 1)
IndexOf(cs, sub) == IndexFrom(cs, sub, 1)

\* a replacement of the last occurrence
ReplaceFirst_last(cs, find, repl) ==
    LET at == {j \in 1..Len(cs) : IndexFrom(cs, find, j) = j}
        i == CHOOSE j \in at : \A k \in at : k <= j
    IN  SubSeq(cs, 1, i - 1) \o repl \o SubSeq(cs, i + Len(find), Len(cs))

\* content.replace(find, repl, 1) for a find that occurs in content
ReplaceFirst(cs, find, repl) ==
    LET i == IndexOf(cs, find)
    IN  SubSeq(cs, 1, i - 1) \o repl \o SubSeq(cs, i + Len(find), Len(cs))

\* content.splitlines(keepends=True)
RECURSIVE SplitKeep(_, _)
SplitKeep(cs, cur) ==
    IF cs = <<>> THEN (IF cur = <<>> THEN <<>> ELSE <<cur>>)
    ELSE IF Head(cs) = "\n" THEN <<Append(cur, "\n")>> \o SplitKeep(Tail(cs), <<>>)
    ELSE SplitKeep(Tail(cs), Append(cur, Head(cs)))
SplitLinesKeep(cs) == SplitKeep(cs, <<>>)

\* "".join(lines)
RECURSIVE Concat(_)
Concat(lines) == IF lines = <<>> THEN <<>> ELSE Head(lines) \o Concat(Tail(lines))

EndsWithNewline(cs) == cs # <<>> /\ cs[Len(cs)] = "\n"

(***************************************************************************)
(* The file system: two paths, each missing, a file or a directory.  A     *)
(* large file is its first characters (content) and the number of further  *)
(* bytes after them (pad, each the character "x"); only read_file is       *)
(* applied to files with pad > 0.                                          *)
(***************************************************************************)
Paths == {"/w/a", "/w/d"}
Missing == [kind |-> "missing", content |-> <<>>, pad |-> 0]
File(cs) == [kind |-> "file", content |-> cs, pad |-> 0]
LargeFile(cs, size) == [kind |-> "file", content |-> cs, pad |-> size - Len(cs)]
Dir == [kind |-> "dir", content |-> <<>>, pad |-> 0]

\* p.stat().st_size
Size(file) == Len(file.content) + file.pad

\* the outcome of a handler: its result, the state it leaves, and the side
\* effect it performed on the machine ("none", "write", "delete", "shell")
Outcome(res, f, todo, effect) ==
    [raised |-> FALSE, exc |-> "", res |-> res, fs |-> f, todo |-> todo,
     effect |-> effect]
\* a handler that raised exc after performing effect
Raised(exc, f, todo, effect) ==
    [raised |-> TRUE, exc |-> exc, res |-> Result(FALSE, ABSENT, ABSENT, JAbsent),
     fs |-> f, todo |-> todo, effect |-> effect]

Err(msg, f, todo) == Outcome(Result(FALSE, ABSENT, msg, JAbsent), f, todo, "none")
Ok(msg, f, todo, effect) == Outcome(Result(TRUE, msg, ABSENT, JAbsent), f, todo, effect)

\* Path(path): raises TypeError for a path that is not a string
PATH_TYPE_ERROR == "expected str, bytes or os.PathLike object, not int"

\* what the operating system answers to a handler's request
Envs == {"ok", "nonzero", "timeout", "perm"}

(***************************************************************************)
(* The task list (todo_tool)                                               *)
(***************************************************************************)
NoTodo == [present |-> FALSE, title |-> "", tasks |-> <<>>]

\* a check that flips the mark of the task
mark_done_toggles(tasks, idx) == [tasks EXCEPT ![idx].done = ~@]

\* session_todo["tasks"][idx - 1]["done"] = True
mark_done(tasks, idx) == [tasks EXCEPT ![idx].done = TRUE]

\* the tasks with every in-range index of indices marked done, and the count
RECURSIVE CheckAll(_, _, _)
CheckAll(tasks, indices, checked) ==
    IF indices = <<>> THEN [tasks |-> tasks, checked |-> checked]
    ELSE LET idx == Head(indices)
         IN  IF 0 < idx /\ idx <= Len(tasks)
             THEN CheckAll(mark_done(tasks, idx), Tail(indices), checked + 1)
             ELSE CheckAll(tasks, Tail(indices), checked)

\* a create that keeps every task it is given
todo_tool_uncapped(action, tasks, indices, title, f, todo) ==
    CASE action = "create" ->
           IF tasks = <<>> THEN Err("No tasks provided", f, todo)
           ELSE LET new == [present |-> TRUE,
                            title |-> IF Truthy(title) THEN PyStr(title) ELSE "Task Plan",
                            tasks |-> [i \in 1..Len(tasks) |->
                                          [task |-> tasks[i], done |-> FALSE]]]
                IN  Ok("Created TODO with " \o ToString(Len(new.tasks)) \o " tasks",
                       f, new, "none")
      [] action = "check" ->
           IF ~todo.present THEN Err("No TODO list exists", f, todo)
           ELSE IF indices = <<>> THEN Err("No indices provided", f, todo)
           ELSE LET c == CheckAll(todo.tasks, indices, 0)
                IN  Ok("Checked off " \o ToString(c.checked) \o " task(s)",
                       f, [todo EXCEPT !.tasks = c.tasks], "none")
      [] action = "show" ->
           IF ~todo.present THEN Ok("No TODO list", f, todo, "none")
           ELSE Ok("Displayed TODO", f, todo, "none")
      [] action = "clear" -> Ok("Cleared TODO list", f, NoTodo, "none")
      [] OTHER -> Err("Unknown action: " \o action, f, todo)

\* todo_tool: the action on the session's task list
todo_tool(action, tasks, indices, title, f, todo) ==
    CASE action = "create" ->
           IF tasks = <<>> THEN Err("No tasks provided", f, todo)
           ELSE LET new == [present |-> TRUE,
                            title |-> IF Truthy(title) THEN PyStr(title) ELSE "Task Plan",
                            tasks |-> [i \in 1..Min(TASK_CAP, Len(tasks)) |->
                                          [task |-> tasks[i], done |-> FALSE]]]
                IN  Ok("Created TODO with " \o ToString(Len(new.tasks)) \o " tasks",
                       f, new, "none")
      [] action = "check" ->
           IF ~todo.present THEN Err("No TODO list exists", f, todo)
           ELSE IF indices = <<>> THEN Err("No indices provided", f, todo)
           ELSE LET c == CheckAll(todo.tasks, indices, 0)
                IN  Ok("Checked off " \o ToString(c.checked) \o " task(s)",
                       f, [todo EXCEPT !.tasks = c.tasks], "none")
      [] action = "show" ->
           IF ~todo.present THEN Ok("No TODO list", f, todo, "none")
           ELSE Ok("Displayed TODO", f, todo, "none")
      [] action = "clear" -> Ok("Cleared TODO list", f, NoTodo, "none")
      [] OTHER -> Err("Unknown action: " \o action, f, todo)

(***************************************************************************)
(* The tool handlers (_execute_tool_inner)                                 *)
(***************************************************************************)
\* the first n characters of a file's text; the characters past the modelled
\* content are written as their number
Slice(file, n) ==
    LET cs == FirstN(file.content, n)
        rest == Min(file.pad, n - Len(cs))
    IN  Flat(cs) \o (IF rest = 0 THEN "" ELSE "<x*" \o ToString(rest) \o ">")

LARGE_FILE_ERROR ==
    "File > 400KB. Intelligent Mode: Use 'search_file' to locate relevant code, then 'read_file' with start_line/end_line to read specific sections."

\* read_file without start_line and end_line (the calls of the model carry no
\* line range): the size is tested from stat() before the text is read, so a
\* large file that cannot be read is refused for its size
read_file(call, f, todo, env) ==
    LET path == GetStr(call.path) IN
    IF ~Truthy(path) THEN Err("No path", f, todo)
    ELSE IF path.t # "str" THEN Raised(PATH_TYPE_ERROR, f, todo, "none")
    ELSE IF f[path.s].kind = "missing" THEN Err("Not found: " \o path.s, f, todo)
    ELSE IF f[path.s].kind = "dir" THEN Err("Is directory: " \o path.s, f, todo)
    ELSE IF Size(f[path.s]) > LARGE_FILE_SIZE THEN Err(LARGE_FILE_ERROR, f, todo)
    ELSE IF env = "perm" THEN Err("Permission denied: " \o path.s, f, todo)
    ELSE IF Size(f[path.s]) > MAX_FILE_SIZE
    THEN Outcome([Result(TRUE, Slice(f[path.s], MAX_FILE_SIZE), ABSENT, JAbsent)
                     EXCEPT !.truncated = TRUE], f, todo, "none")
    ELSE Ok(Slice(f[path.s], Size(f[path.s])), f, todo, "none")

write_file(call, f, todo, env) ==
    LET path == GetStr(call.path) IN
    IF ~Truthy(path) THEN Err("No path", f, todo)
    ELSE IF ~call.content.present THEN Err("No content", f, todo)
    ELSE IF path.t # "str" THEN Raised(PATH_TYPE_ERROR, f, todo, "none")
    ELSE IF f[path.s].kind = "dir"
         THEN Err("Write failed: [Errno 21] Is a directory: '" \o path.s \o "'", f, todo)
    ELSE IF env = "perm" THEN Err("Permission denied: " \o path.s, f, todo)
    ELSE Ok("Written: " \o path.s \o " (" \o ToString(Len(call.content.text)) \o " bytes)",
            [f EXCEPT ![path.s] = File(call.content.text)], todo, "write")

\* the loop over edits: the running content and the number of edits that matched
RECURSIVE ApplyEdits(_, _, _)
ApplyEdits(content, edits, changes) ==
    IF edits = <<>> THEN [content |-> content, changes |-> changes]
    ELSE LET e == Head(edits)
         IN  IF e.find # <<>> /\ IndexOf(content, e.find) > 0
             THEN ApplyEdits(ReplaceFirst(content, e.find, e.replace), Tail(edits),
                             changes + 1)
             ELSE ApplyEdits(content, Tail(edits), changes)

edit_file(call, f, todo, env) ==
    LET path == GetStr(call.path) IN
    IF ~Truthy(path) THEN Err("No path", f, todo)
    ELSE IF path.t # "str" THEN Raised(PATH_TYPE_ERROR, f, todo, "none")
    ELSE IF f[path.s].kind = "missing" THEN Err("Not found: " \o path.s, f, todo)
    ELSE IF call.edits = <<>> THEN Err("No edits", f, todo)
    ELSE IF f[path.s].kind = "dir"
         THEN Raised("[Errno 21] Is a directory: '" \o path.s \o "'", f, todo, "none")
    ELSE IF env = "perm" THEN Err("Permission denied: " \o path.s, f, todo)
    ELSE LET r == ApplyEdits(f[path.s].content, call.edits, 0)
         IN  IF r.changes = 0 THEN Err("No matches found", f, todo)
             ELSE Ok("Edited: " \o path.s \o " (" \o ToString(r.changes) \o " changes)",
                     [f EXCEPT ![path.s] = File(r.content)], todo, "write")

\* sorted(patches, key=line, reverse=True): stable, descending by line
RECURSIVE InsertDesc(_, _)
InsertDesc(sorted, p) ==
    IF sorted = <<>> THEN <<p>>
    ELSE IF Head(sorted).line >= p.line THEN <<Head(sorted)>> \o InsertDesc(Tail(sorted), p)
    ELSE <<p>> \o sorted
RECURSIVE SortDesc(_, _)
SortDesc(patches, acc) ==
    IF patches = <<>> THEN acc ELSE SortDesc(Tail(patches), InsertDesc(acc, Head(patches)))

\* list.insert(i, x) with a 0-based i in 0..len
InsertAt(lines, i, x) == SubSeq(lines, 1, i) \o <<x>> \o SubSeq(lines, i + 1, Len(lines))
\* list.pop(i) with a 0-based i in range
RemoveAt(lines, i) == SubSeq(lines, 1, i) \o SubSeq(lines, i + 2, Len(lines))

\* one patch applied to the lines
ApplyPatch(lines, patch) ==
    LET line_num == patch.line - 1
        pcontent == IF patch.content # <<>> /\ ~EndsWithNewline(patch.content)
                    THEN Append(patch.content, "\n") ELSE patch.content
        inside == 0 <= line_num /\ line_num < Len(lines)
    IN  IF patch.action = "delete"
        THEN IF inside THEN [lines |-> RemoveAt(lines, line_num), changed |-> 1]
             ELSE [lines |-> lines, changed |-> 0]
        ELSE IF inside
        THEN CASE patch.action = "replace" ->
                    [lines |-> [lines EXCEPT ![line_num + 1] = pcontent], changed |-> 1]
               [] patch.action = "insert_after" ->
                    [lines |-> InsertAt(lines, line_num + 1, pcontent), changed |-> 1]
               [] patch.action = "insert_before" ->
                    [lines |-> InsertAt(lines, line_num, pcontent), changed |-> 1]
               [] OTHER -> [lines |-> lines, changed |-> 0]
        ELSE IF patch.action \in {"insert_after", "insert_before"} /\ line_num = Len(lines)
        THEN [lines |-> Append(lines, pcontent), changed |-> 1]
        ELSE [lines |-> lines, changed |-> 0]

RECURSIVE ApplyPatches(_, _, _)
ApplyPatches(lines, patches, changes) ==
    IF patches = <<>> THEN [lines |-> lines, changes |-> changes]
    ELSE LET r == ApplyPatch(lines, Head(patches))
         IN  ApplyPatches(r.lines, Tail(patches), changes + r.changed)

\* the lines of the file, the last one ended with a newline
PatchLines(content) ==
    LET lines == SplitLinesKeep(content)
    IN  IF lines # <<>> /\ ~EndsWithNewline(lines[Len(lines)])
        THEN [lines EXCEPT ![Len(lines)] = Append(@, "\n")] ELSE lines

\* a patch_file that applies the patches in the order they are listed
patch_file_listed_order(call, f, todo, env) ==
    LET path == GetStr(call.path) IN
    IF ~Truthy(path) THEN Err("No path", f, todo)
    ELSE IF path.t # "str" THEN Raised(PATH_TYPE_ERROR, f, todo, "none")
    ELSE IF f[path.s].kind = "missing" THEN Err("Not found: " \o path.s, f, todo)
    ELSE IF call.patches = <<>> THEN Err("No patches", f, todo)
    ELSE IF f[path.s].kind = "dir"
         THEN Raised("[Errno 21] Is a directory: '" \o path.s \o "'", f, todo, "none")
    ELSE IF env = "perm" THEN Err("Permission denied: " \o path.s, f, todo)
    ELSE LET r == ApplyPatches(PatchLines(f[path.s].content),
                               call.patches, 0)
         IN  Ok("Patched: " \o path.s \o " (" \o ToString(r.changes) \o " changes)",
                [f EXCEPT ![path.s] = File(Concat(r.lines))], todo, "write")

\* patch_file: the patches applied from the highest line number down
patch_file(call, f, todo, env) ==
    LET path == GetStr(call.path) IN
    IF ~Truthy(path) THEN Err("No path", f, todo)
    ELSE IF path.t # "str" THEN Raised(PATH_TYPE_ERROR, f, todo, "none")
    ELSE IF f[path.s].kind = "missing" THEN Err("Not found: " \o path.s, f, todo)
    ELSE IF call.patches = <<>> THEN Err("No patches", f, todo)
    ELSE IF f[path.s].kind = "dir"
         THEN Raised("[Errno 21] Is a directory: '" \o path.s \o "'", f, todo, "none")
    ELSE IF env = "perm" THEN Err("Permission denied: " \o path.s, f, todo)
    ELSE LET r == ApplyPatches(PatchLines(f[path.s].content),
                               SortDesc(call.patches, <<>>), 0)
         IN  Ok("Patched: " \o path.s \o " (" \o ToString(r.changes) \o " changes)",
                [f EXCEPT ![path.s] = File(Concat(r.lines))], todo, "write")

run_command(call, f, todo, env) ==
    LET cmd == GetStr(call.command) IN
    IF ~Truthy(cmd) THEN Err("No command", f, todo)
    ELSE IF cmd.t = "int" THEN Raised("'int' object is not iterable", f, todo, "none")
    ELSE CASE env = "ok" ->
                Outcome(Result(TRUE, "out", ABSENT, JAbsent), f, todo, "shell")
           [] env = "nonzero" ->
                Outcome(Result(FALSE, "(no output)", ABSENT, JAbsent), f, todo, "shell")
           [] env = "timeout" ->
                Outcome(Result(FALSE, ABSENT, "Timeout (60s)", JAbsent), f, todo, "shell")
           [] OTHER -> Err("Command failed: [Errno 13] Permission denied", f, todo)

list_dir(call, f, todo, env) ==
    LET path == GetStr(call.path) IN
    IF ~Truthy(path) THEN Ok("(listing of the working directory)", f, todo, "none")
    ELSE IF path.t # "str" THEN Raised(PATH_TYPE_ERROR, f, todo, "none")
    ELSE IF f[path.s].kind = "missing" THEN Err("Not found: " \o path.s, f, todo)
    ELSE IF f[path.s].kind # "dir" THEN Err("Not a directory: " \o path.s, f, todo)
    ELSE IF env = "perm" THEN Ok("! (permission denied)", f, todo, "none")
    ELSE Ok("(empty)", f, todo, "none")

\* str.lower() on the characters the model's files hold
Lower(c) == IF c = "X" THEN "x" ELSE c
LowerAll(cs) == [i \in 1..Len(cs) |-> Lower(cs[i])]

\* content.splitlines()
SplitLines(cs) ==
    LET ls == SplitLinesKeep(cs)
    IN  [i \in 1..Len(ls) |->
            IF EndsWithNewline(ls[i]) THEN SubSeq(ls[i], 1, Len(ls[i]) - 1) ELSE ls[i]]

\* the "<lineno>: <line>" entries of the lines from i on that hold the pattern
RECURSIVE Matches(_, _, _)
Matches(lines, pattern_lower, i) ==
    IF i > Len(lines) THEN <<>>
    ELSE (IF IndexOf(LowerAll(lines[i]), pattern_lower) > 0
          THEN <<ToString(i) \o ": " \o Flat(lines[i])>> ELSE <<>>)
         \o Matches(lines, pattern_lower, i + 1)

search_file(call, f, todo, env) ==
    LET path == GetStr(call.path) IN
    IF ~Truthy(path) THEN Err("No path", f, todo)
    ELSE IF path.t # "str" THEN Raised(PATH_TYPE_ERROR, f, todo, "none")
    ELSE IF f[path.s].kind = "missing" THEN Err("Not found: " \o path.s, f, todo)
    ELSE IF call.pattern = <<>> THEN Err("No pattern", f, todo)
    ELSE IF f[path.s].kind = "dir"
         THEN Raised("[Errno 21] Is a directory: '" \o path.s \o "'", f, todo, "none")
    ELSE IF env = "perm" THEN Err("Permission denied: " \o path.s, f, todo)
    ELSE LET matches == Matches(SplitLines(f[path.s].content), LowerAll(call.pattern), 1)
         IN  IF matches = <<>> THEN Ok("No matches", f, todo, "none")
             ELSE Ok(Join(matches, "\n"), f, todo, "none")

delete_file(call, f, todo, env) ==
    LET path == GetStr(call.path) IN
    IF ~Truthy(path) THEN Err("No path", f, todo)
    ELSE IF path.t # "str" THEN Raised(PATH_TYPE_ERROR, f, todo, "none")
    ELSE IF f[path.s].kind = "missing" THEN Err("Not found: " \o path.s, f, todo)
    ELSE IF f[path.s].kind = "dir" THEN Err("Cannot delete directory", f, todo)
    ELSE IF env = "perm" THEN Err("Permission denied: " \o path.s, f, todo)
    ELSE Ok("Deleted: " \o path.s, [f EXCEPT ![path.s] = Missing], todo, "delete")

IsTool(tool, name) == tool.t = "str" /\ tool.s = name

execute_tool_inner(tool, call, f, todo, env) ==
    CASE IsTool(tool, "read_file") -> read_file(call, f, todo, env)
      [] IsTool(tool, "write_file") -> write_file(call, f, todo, env)
      [] IsTool(tool, "edit_file") -> edit_file(call, f, todo, env)
      [] IsTool(tool, "patch_file") -> patch_file(call, f, todo, env)
      [] IsTool(tool, "run_command") -> run_command(call, f, todo, env)
      [] IsTool(tool, "list_dir") -> list_dir(call, f, todo, env)
      [] IsTool(tool, "search_file") -> search_file(call, f, todo, env)
      [] IsTool(tool, "delete_file") -> delete_file(call, f, todo, env)
      [] IsTool(tool, "todo") ->
           todo_tool(PyStr(GetStr(call.action)), call.tasks, call.indices,
                     GetStr(call.title), f, todo)
      [] OTHER -> Err("Unknown tool: " \o PyStr(tool), f, todo)

(***************************************************************************)
(* The permission gate                                                     *)
(***************************************************************************)
\* what arrow_select returns as choice; "Esc" stands for None (escape, q, cancel)
Answers == {"Yes", "Trust", "No", "Esc"}

\* the answer recorded for a call that showed no prompt
NoAnswer == "none"

\* the menu of permission_prompt and the keys getch may deliver to it
\* ("interrupt" and "eof" are the KeyboardInterrupt and EOFError of getch)
PROMPT_OPTIONS == <<"Yes", "Trust", "No">>
MoveKeys == {"up", "down", "x"}
EndKeys == {"enter", "esc", "q", "interrupt", "eof"}

\* a menu in which leaving with escape takes the highlighted option
end_choice_esc_selects(options, idx, ch) == options[idx + 1]

\* arrow_select: the value returned when key ch ends the menu at option idx
\* (0-based); "Esc" stands for the return value (-1, None)
end_choice(options, idx, ch) ==
    IF ch = "enter" THEN options[idx + 1] ELSE "Esc"

\* arrow_select: the choice made by the keys pressed, starting at option idx
RECURSIVE arrow_select(_, _, _)
arrow_select(options, idx, pressed) ==
    LET ch == Head(pressed)
        n == Len(options)
    IN  CASE ch = "up" -> arrow_select(options, (idx + n - 1) % n, Tail(pressed))
          [] ch = "down" -> arrow_select(options, (idx + 1) % n, Tail(pressed))
          [] ch \in EndKeys -> end_choice(options, idx, ch)
          [] OTHER -> arrow_select(options, idx, Tail(pressed))

\* a gate that lets the call through whatever the answer is
permission_prompt_open(trust, answer) ==
    IF trust THEN [granted |-> TRUE, trust |-> TRUE, prompted |-> FALSE]
    ELSE [granted |-> TRUE, trust |-> answer = "Trust", prompted |-> TRUE]

\* permission_prompt under the answer the user gives when a prompt is shown
permission_prompt(trust, answer) ==
    IF trust THEN [granted |-> TRUE, trust |-> TRUE, prompted |-> FALSE]
    ELSE IF answer = "Trust" THEN [granted |-> TRUE, trust |-> TRUE, prompted |-> TRUE]
    ELSE [granted |-> answer = "Yes", trust |-> FALSE, prompted |-> TRUE]

\* a gate that also applies to reading
DestructiveTools_with_read ==
    {"delete_file", "write_file", "edit_file", "patch_file", "run_command", "read_file"}

\* the tuple of line 738
DestructiveTools == {"delete_file", "write_file", "edit_file", "patch_file", "run_command"}

IsDestructive(tool) == tool.t = "str" /\ tool.s \in DestructiveTools

\* target = path or call.get("command", "")[:60] raises for a command that
\* cannot be sliced
TargetRaises(call) ==
    ~Truthy(GetStr(call.path)) /\ ~Sliceable(GetStr(call.command))

SUBSCRIPT_ERROR(v) ==
    IF v.t = "null" THEN "'NoneType' object is not subscriptable"
    ELSE "'int' object is not subscriptable"

\* the record of one execute_tool call: raised = an exception left execute_tool
Exec(raised, exc, res, trust, f, todo, effect, prompted, handler_ran) ==
    [raised |-> raised, exc |-> exc, res |-> res, trust |-> trust, fs |-> f,
     todo |-> todo, effect |-> effect, prompted |-> prompted,
     handler_ran |-> handler_ran]

execute_tool(call, trust, f, todo, answer, env) ==
    IF ~call.dict
    THEN Exec(FALSE, "", Result(FALSE, ABSENT, "Invalid tool format", JAbsent),
              trust, f, todo, "none", FALSE, FALSE)
    ELSE
    LET tool == GetStr(call.tool)
        destructive == IsDestructive(tool)
        gate == permission_prompt(trust, answer)
        inner == execute_tool_inner(tool, call, f, todo, env)
    IN  IF destructive /\ TargetRaises(call)
        THEN Exec(TRUE, SUBSCRIPT_ERROR(GetStr(call.command)),
                  Result(FALSE, ABSENT, ABSENT, JAbsent),
                  trust, f, todo, "none", FALSE, FALSE)
        ELSE IF destructive /\ ~gate.granted
        THEN Exec(FALSE, "", Result(FALSE, ABSENT, "Denied by user", tool),
                  gate.trust, f, todo, "none", gate.prompted, FALSE)
        ELSE LET t == IF destructive THEN gate.trust ELSE trust
                 p == destructive /\ gate.prompted
             IN  IF inner.raised
                 THEN Exec(FALSE, "", Result(FALSE, ABSENT, inner.exc, tool),
                           t, inner.fs, inner.todo, inner.effect, p, TRUE)
                 ELSE Exec(FALSE, "", inner.res, t, inner.fs, inner.todo,
                           inner.effect, p, TRUE)

(***************************************************************************)
(* Values the variables hold while their part of the program is not running*)
(***************************************************************************)
NoResponse == [text |-> "", segs |-> <<>>]
NoIter == [kind |-> "none", before |-> <<>>, response |-> "", k |-> 0, execs |-> 0,
           log |-> <<>>]
NoExec ==
    [call |-> NotADict, trust_before |-> FALSE, answer |-> NoAnswer, env |-> "ok",
     fs_before |-> [p \in Paths |-> Missing], todo_before |-> NoTodo,
     out |-> Exec(FALSE, "", Result(FALSE, ABSENT, ABSENT, JAbsent), FALSE,
                  [p \in Paths |-> Missing], NoTodo, "none", FALSE, FALSE)]
NoPoeResult == [ok |-> FALSE, content |-> "", error |-> ""]

LoopIdle ==
    /\ loop_i = 0 /\ response = NoResponse /\ tools = <<>> /\ tool_results = <<>>
    /\ sent = <<>> /\ backend_calls = 0 /\ iter_execs = 0 /\ last_iter = NoIter
    /\ turn_start = <<>>
\* the credential storage: KEYS_FILE may be absent, may hold text that is not
\* JSON, or holds an object whose "keys" member is a list of values
NoKeyFile == [exists |-> FALSE, json_ok |-> TRUE, keys |-> <<>>]
BadKeyFile == [exists |-> TRUE, json_ok |-> FALSE, keys |-> <<>>]
StoredKeys(entries) == [exists |-> TRUE, json_ok |-> TRUE, keys |-> entries]

\* the settings dict, in the shape load_settings gives it
Settings(model, reasoning, verbose) ==
    [model |-> model, mode |-> "cloud", ollama_model |-> "llama3",
     experiments |-> [reasoning |-> reasoning, planning |-> FALSE,
                      verbose |-> verbose, details |-> FALSE]]
\* load_settings without a settings file
DefaultSettings == Settings("codex", FALSE, FALSE)

\* SETTINGS_FILE does not exist
NoSettingsFile == [exists |-> FALSE]
\* save_settings(s)
save_settings(st) == [exists |-> TRUE, data |-> st]

\* the names under which conversations are stored; a name without a file holds
\* NoConversation
ConvNames == {"short", "nosys", "long", "systems", "s1"}
NoConversation == <<>>

\* no indicator thread exists
ShimIdle == stop = FALSE /\ shim_pc = "none" /\ shim_i = 0 /\ terminal = <<>>

\* no settings were saved and no conversation is stored
ConfigIdle ==
    /\ settings_file = NoSettingsFile
    /\ conv_files = [n \in ConvNames |-> NoConversation]

PoeIdle ==
    /\ key_file = NoKeyFile /\ settings = DefaultSettings
    /\ keys = <<>> /\ poe_msgs = <<>> /\ poe_i = 0 /\ errors = <<>> /\ attempts = <<>>
    /\ poe_result = NoPoeResult
    /\ ShimIdle

SYSTEM_PROMPT == "You are Lumis"
Msg(role, content) == [role |-> role, content |-> content]

(***************************************************************************)
(* SpecExec: a driver that calls execute_tool on arbitrary payloads        *)
(***************************************************************************)
TextAA == <<"a", " ", "a">>

ExecPaths == {JAbsent, JStr("/w/a"), JStr("/w/d")}

ExecCalls ==
    {NotADict}
    \cup {Call(JStr(t), p, JAbsent, NoText) :
            t \in {"read_file", "delete_file", "list_dir", "write_file", "edit_file",
                   "patch_file", "search_file", "bogus"},
            p \in ExecPaths}
    \cup {Call(JStr("write_file"), p, JAbsent, Text(TextAA)) :
            p \in ExecPaths \cup {JInt(5)}}
    \cup {[Call(JStr("edit_file"), JStr("/w/a"), JAbsent, NoText) EXCEPT !.edits = e] :
            e \in {<<[find |-> <<"a">>, replace |-> <<"b">>]>>,
                   <<[find |-> <<"z">>, replace |-> <<"b">>]>>}}
    \cup {[Call(JStr("patch_file"), JStr("/w/a"), JAbsent, NoText) EXCEPT !.patches = ps] :
            ps \in {<<[line |-> 1, action |-> "replace", content |-> <<"X">>]>>,
                    <<[line |-> 9, action |-> "delete", content |-> <<>>]>>}}
    \cup {[Call(JStr("search_file"), JStr("/w/a"), JAbsent, NoText) EXCEPT !.pattern = <<"a">>]}
    \cup {Call(JStr("run_command"), p, c, NoText) :
            p \in {JAbsent, JStr("/w/a")},
            c \in {JAbsent, JStr("ls"), JInt(5), JNull, JList(2)}}
    \cup {Call(JStr("delete_file"), JAbsent, JInt(5), NoText),
          Call(JInt(5), JAbsent, JAbsent, NoText),
          Call(JAbsent, JStr("/w/a"), JAbsent, NoText)}
    \cup {[Call(JStr("todo"), JAbsent, JAbsent, NoText) EXCEPT
              !.action = a, !.tasks = ts, !.indices = ix] :
            a \in {JStr("create"), JStr("check"), JStr("show"), JStr("clear"), JAbsent},
            ts \in {<<>>, <<"t1", "t2", "t3">>},
            ix \in {<<>>, <<1, 5>>}}

ExecInit ==
    /\ messages = <<Msg("system", SYSTEM_PROMPT)>>
    /\ trust_session \in BOOLEAN
    /\ session_todo = NoTodo
    /\ fs \in {[p \in Paths |-> IF p = "/w/d" THEN Dir ELSE a] : a \in {Missing, File(TextAA)}}
    /\ pc = "call"
    /\ last_exec = NoExec
    /\ gated_used = 0 /\ session_calls = 0
    /\ LoopIdle /\ PoeIdle /\ ConfigIdle

\* one call of execute_tool: the payload, the user's answer to a prompt (if one
\* is shown) and the operating system's answer are inputs
ExecCall ==
    /\ pc = "call"
    /\ \E call \in ExecCalls, answer \in Answers, env \in Envs :
         LET out == execute_tool(call, trust_session, fs, session_todo, answer, env)
         IN  /\ last_exec' = [call |-> call, trust_before |-> trust_session,
                              answer |-> IF out.prompted THEN answer ELSE NoAnswer,
                              env |-> env, fs_before |-> fs, todo_before |-> session_todo,
                              out |-> out]
             /\ trust_session' = out.trust
             /\ fs' = out.fs
             /\ session_todo' = out.todo
             /\ pc' = IF out.raised THEN "raised" ELSE "returned"
    /\ UNCHANGED <<messages, gated_used, session_calls, loop_vars, poe_vars>>

\* the driver takes the result (or the exception) and makes its next call
ExecAgain ==
    /\ pc \in {"returned", "raised"}
    /\ pc' = "call"
    /\ last_exec' = NoExec
    /\ UNCHANGED <<messages, trust_session, session_todo, fs, gated_used,
                   session_calls, loop_vars, poe_vars>>

ExecNext == ExecCall \/ ExecAgain

\* handle_command("/reset") between two calls of the driver
ExecReset ==
    /\ pc = "call"
    /\ messages' = <<Msg("system", SYSTEM_PROMPT)>>
    /\ trust_session' = FALSE
    /\ session_todo' = NoTodo
    /\ UNCHANGED <<fs, pc, last_exec, gated_used, session_calls, loop_vars, poe_vars>>
SpecExec == ExecInit /\ [][ExecNext]_vars
\* the driver of SpecExec in a session where /reset may be typed between calls
ExecResetNext == ExecCall \/ ExecAgain \/ ExecReset
SpecExecReset == ExecInit /\ [][ExecResetNext]_vars

(***************************************************************************)
(* chat_poe: the credential failover loop                                  *)
(***************************************************************************)
\* what one request can come to
PoeOutcomes == {"choice", "no_choices", "bad_json", "http_500", "http_429",
                "timeout", "connection", "exception"}

\* the error string recorded for a failed attempt with credential number i (1-based)
PoeError(i, outcome) ==
    "Key " \o ToString(i) \o ": " \o
    (CASE outcome = "no_choices" -> "Invalid response format"
       [] outcome = "bad_json" -> "Malformed JSON"
       [] outcome = "http_500" -> "HTTP 500"
       [] outcome = "http_429" -> "HTTP 429"
       [] outcome = "timeout" -> "Timeout"
       [] outcome = "connection" -> "Connection failed"
       [] OTHER -> "'str' object has no attribute 'get'")

\* an attempt that forgets to record a timeout
poe_attempt_drops_timeout(i, errs, outcome) ==
    IF outcome = "choice"
    THEN [returns |-> TRUE, result |-> [ok |-> TRUE, content |-> "hello", error |-> ""],
          errors |-> errs]
    ELSE [returns |-> FALSE, result |-> NoPoeResult,
          errors |-> IF outcome = "timeout" THEN errs
                     ELSE Append(errs, PoeError(i, outcome))]

\* the body of the for loop for credential number i: the value returned, if
\* the loop returns, and the error list it leaves
poe_attempt(i, errs, outcome) ==
    IF outcome = "choice"
    THEN [returns |-> TRUE, result |-> [ok |-> TRUE, content |-> "hello", error |-> ""],
          errors |-> errs]
    ELSE [returns |-> FALSE, result |-> NoPoeResult,
          errors |-> Append(errs, PoeError(i, outcome))]

\* a return that shows the first errors instead of the last
poe_exhausted_first(errs) ==
    [ok |-> FALSE, content |-> "",
     error |-> IF errs # <<>> THEN Join(FirstN(errs, ERRORS_SHOWN), "; ")
               ELSE "All keys exhausted"]

\* the return after the loop
poe_exhausted(errs) ==
    [ok |-> FALSE, content |-> "",
     error |-> IF errs # <<>> THEN Join(LastN(errs, ERRORS_SHOWN), "; ")
               ELSE "All keys exhausted"]

IsKey(k) == k.t = "str" /\ k.s # ""
KeyText(k) == k.s

\* load_keys(): the non-empty strings of the stored list, in order
load_keys(file) ==
    IF file.exists /\ file.json_ok
    THEN LET ks == SelectSeq(file.keys, IsKey)
         IN  [i \in 1..Len(ks) |-> KeyText(ks[i])]
    ELSE <<>>

VERBOSE_PROMPT == "\n\n[Think carefully. Take your time. Verify your work before responding.]"

\* the flags chosen by model_key
ReasoningFlags(model_key) ==
    CASE model_key \in {"codex", "gpt"} -> <<"--reasoning_effort high">>
      [] model_key = "opus" -> <<"--thinking_budget 24000", "--web_search true">>
      [] model_key = "sonnet" -> <<"--thinking_budget 16000", "--web_search true">>
      [] model_key = "haiku" -> <<"--thinking_budget 8000", "--web_search true">>
      [] OTHER -> <<>>

LastIsUser(msgs) == msgs # <<>> /\ msgs[Len(msgs)].role = "user"
\* msgs[-1]["content"] = text
SetLastContent(msgs, text) == [msgs EXCEPT ![Len(msgs)].content = text]

\* the reasoning block of chat_poe
with_reasoning(msgs, st) ==
    IF LastIsUser(msgs) /\ st.experiments.reasoning /\ ReasoningFlags(st.model) # <<>>
    THEN SetLastContent(msgs, msgs[Len(msgs)].content \o " "
                              \o Join(ReasoningFlags(st.model), " "))
    ELSE msgs

\* the verbose block of chat_poe
with_verbose(msgs, st) ==
    IF st.experiments.verbose /\ LastIsUser(msgs)
    THEN SetLastContent(msgs, msgs[Len(msgs)].content \o VERBOSE_PROMPT)
    ELSE msgs

\* a preparation that writes the directives into the caller's own messages
\* (msgs = list(messages): the dicts are shared)
chat_poe_messages_shared(conv, st) ==
    LET msgs == with_verbose(with_reasoning(conv, st), st)
    IN  [messages |-> msgs, msgs |-> msgs]

\* msgs = [m.copy() for m in messages] and the two blocks that follow: the
\* caller's list after them, and the list put in the requests
chat_poe_messages(conv, st) ==
    [messages |-> conv, msgs |-> with_verbose(with_reasoning(conv, st), st)]

KeyName(i) == "key" \o ToString(i)
KeyLists == {[i \in 1..n |-> JStr(KeyName(i))] : n \in 0..MaxKeys}

PoeInit ==
    /\ messages = <<Msg("system", SYSTEM_PROMPT), Msg("user", "hi")>>
    /\ trust_session = FALSE
    /\ session_todo = NoTodo
    /\ fs = [p \in Paths |-> Missing]
    /\ pc = "poe_start"
    /\ last_exec = NoExec
    /\ gated_used = 0 /\ session_calls = 0
    /\ LoopIdle
    /\ key_file \in {StoredKeys(entries) : entries \in KeyLists}
    /\ settings = DefaultSettings
    /\ keys = <<>> /\ poe_msgs = <<>>
    /\ poe_i = 0 /\ errors = <<>> /\ attempts = <<>> /\ poe_result = NoPoeResult
    /\ ShimIdle /\ ConfigIdle

poe_frame == <<trust_session, session_todo, fs, last_exec, gated_used,
               session_calls, loop_vars, config_vars, settings, shim_vars>>

\* keys = load_keys(); if not keys: return; then the preparation of msgs
PoeStart ==
    /\ pc = "poe_start"
    /\ keys' = load_keys(key_file)
    /\ IF keys' = <<>>
       THEN /\ poe_result' = [ok |-> FALSE, content |-> "",
                              error |-> "No API keys configured"]
            /\ pc' = "poe_done"
            /\ UNCHANGED <<messages, poe_msgs>>
       ELSE /\ LET prepared == chat_poe_messages(messages, settings)
               IN  /\ messages' = prepared.messages
                   /\ poe_msgs' = prepared.msgs
            /\ pc' = "poe_loop"
            /\ UNCHANGED poe_result
    /\ UNCHANGED <<poe_i, errors, attempts, poe_frame>>

\* one iteration of `for i, key in enumerate(keys)`, the request ending in
\* one of the given outcomes
PoeAttemptWith(outcomes) ==
    /\ pc = "poe_loop"
    /\ poe_i < Len(keys)
    /\ \E outcome \in outcomes :
         LET a == poe_attempt(poe_i + 1, errors, outcome)
         IN  /\ attempts' = Append(attempts, [key |-> keys[poe_i + 1], outcome |-> outcome])
             /\ errors' = a.errors
             /\ IF a.returns
                THEN /\ poe_result' = a.result
                     /\ pc' = "poe_done"
                     /\ UNCHANGED poe_i
                ELSE /\ poe_i' = poe_i + 1
                     /\ UNCHANGED <<poe_result, pc>>
    /\ UNCHANGED <<messages, keys, poe_msgs, poe_frame>>

PoeAttempt == PoeAttemptWith(PoeOutcomes)

\* the loop ran out of credentials
PoeExhausted ==
    /\ pc = "poe_loop"
    /\ poe_i = Len(keys)
    /\ poe_result' = poe_exhausted(errors)
    /\ pc' = "poe_done"
    /\ UNCHANGED <<messages, keys, poe_msgs, poe_i, errors, attempts, poe_frame>>

PoeNext == PoeStart \/ PoeAttempt \/ PoeExhausted
SpecPoe == PoeInit /\ [][PoeNext]_vars

(***************************************************************************)
(* SpecSend: chat_poe over what the credential storage may hold, with any  *)
(* settings, on conversations ending in either role                        *)
(***************************************************************************)
\* a stored list of n entries; `odd` puts an entry that is not a key in it
KeyEntries(n, odd) ==
    [i \in 1..n |-> CASE odd = "empty" /\ i = 1 -> JStr("")
                      [] odd = "number" /\ i = 2 -> JInt(7)
                      [] OTHER -> JStr(KeyName(i))]
KeyFiles ==
    {NoKeyFile, BadKeyFile}
    \cup {StoredKeys(KeyEntries(n, odd)) :
            n \in 0..MaxStoredKeys, odd \in {"none", "empty", "number"}}

ModelKeys == {"codex", "gpt", "opus", "sonnet", "haiku", "local"}
SettingsSet == {Settings(m, r, v) : m \in ModelKeys, r \in BOOLEAN, v \in BOOLEAN}

SendConversations ==
    {<<Msg("system", SYSTEM_PROMPT), Msg("user", "hi")>>,
     <<Msg("system", SYSTEM_PROMPT), Msg("user", "hi"), Msg("assistant", "hello")>>,
     <<Msg("system", SYSTEM_PROMPT), Msg("user", "hi"), Msg("assistant", "hello"),
       Msg("user", "Tool results:\nok")>>}
SendOutcomes == {"choice", "http_500"}

SendInit ==
    /\ messages \in SendConversations
    /\ trust_session = FALSE
    /\ session_todo = NoTodo
    /\ fs = [p \in Paths |-> Missing]
    /\ pc = "poe_start"
    /\ last_exec = NoExec
    /\ gated_used = 0 /\ session_calls = 0
    /\ LoopIdle
    /\ key_file \in KeyFiles
    /\ settings \in SettingsSet
    /\ keys = <<>> /\ poe_msgs = <<>>
    /\ poe_i = 0 /\ errors = <<>> /\ attempts = <<>> /\ poe_result = NoPoeResult
    /\ ShimIdle /\ ConfigIdle

SendAttempt == PoeAttemptWith(SendOutcomes)

SendNext == PoeStart \/ SendAttempt \/ PoeExhausted
SpecSend == SendInit /\ [][SendNext]_vars

(***************************************************************************)
(* SpecShimmer: the backend call of one agent_loop iteration (lines 1267   *)
(* to 1275) and the thread started by shimmer_thinking, interleaved        *)
(***************************************************************************)
Written(by, what) == [by |-> by, what |-> what]

\* what chat() may do: return a result, or raise (load_keys raises when the
\* stored JSON is not an object)
ChatOutcomes == {"ok", "error", "raise"}

ShimmerInit ==
    /\ messages = <<Msg("system", SYSTEM_PROMPT), Msg("user", "hi")>>
    /\ trust_session = FALSE
    /\ session_todo = NoTodo
    /\ fs = [p \in Paths |-> Missing]
    /\ pc = "think_start"
    /\ last_exec = NoExec
    /\ gated_used = 0 /\ session_calls = 0
    /\ LoopIdle /\ PoeIdle /\ ConfigIdle

think_frame == <<messages, trust_session, session_todo, fs, last_exec, gated_used,
                 session_calls, loop_vars, config_vars, settings, keys, poe_msgs, poe_i,
                 errors, attempts>>

\* stop = shimmer_thinking(): the event is created and the thread started
ThinkStart ==
    /\ pc = "think_start"
    /\ stop' = FALSE /\ shim_pc' = "test" /\ shim_i' = 0
    /\ pc' = "think_chat"
    /\ UNCHANGED <<terminal, poe_result, think_frame>>

\* result = chat(messages, settings)
ThinkChat ==
    /\ pc = "think_chat"
    /\ \E outcome \in ChatOutcomes :
         CASE outcome = "ok" ->
                /\ poe_result' = [ok |-> TRUE, content |-> "hello", error |-> ""]
                /\ pc' = "think_set"
           [] outcome = "error" ->
                /\ poe_result' = [ok |-> FALSE, content |-> "", error |-> "boom"]
                /\ pc' = "think_set"
           [] OTHER ->
                /\ pc' = "think_raised"
                /\ UNCHANGED poe_result
    /\ UNCHANGED <<shim_vars, think_frame>>

\* stop.set()
ThinkSet ==
    /\ pc = "think_set"
    /\ stop' = TRUE
    /\ pc' = "think_sleep"
    /\ UNCHANGED <<shim_pc, shim_i, terminal, poe_result, think_frame>>

\* time.sleep(0.15): the main thread waits for no one
ThinkSleep ==
    /\ pc = "think_sleep"
    /\ pc' = "think_inspect"
    /\ UNCHANGED <<shim_vars, poe_result, think_frame>>

\* if not result.get("ok"): print the error; else print what the response holds
ThinkInspect ==
    /\ pc = "think_inspect"
    /\ terminal' = Append(terminal,
                          Written("main", IF poe_result.ok THEN "response" ELSE "error"))
    /\ pc' = "think_done"
    /\ UNCHANGED <<stop, shim_pc, shim_i, poe_result, think_frame>>

\* run: while not stop.is_set()
ShimTest ==
    /\ shim_pc = "test"
    /\ shim_pc' = IF stop THEN "clear" ELSE "write"
    /\ UNCHANGED <<stop, shim_i, terminal, pc, poe_result, think_frame>>

\* run: sys.stdout.write of one frame
ShimWrite ==
    /\ shim_pc = "write"
    /\ shim_i < MaxFrames
    /\ terminal' = Append(terminal, Written("indicator", "frame"))
    /\ shim_pc' = "wait"
    /\ UNCHANGED <<stop, shim_i, pc, poe_result, think_frame>>

\* run: if stop.wait(0.1): break; i += 1
ShimWait ==
    /\ shim_pc = "wait"
    /\ IF stop
       THEN shim_pc' = "clear" /\ UNCHANGED shim_i
       ELSE shim_pc' = "test" /\ shim_i' = shim_i + 1
    /\ UNCHANGED <<stop, terminal, pc, poe_result, think_frame>>

\* run: finally: sys.stdout.write(CLEAR_LINE); the thread ends
ShimClear ==
    /\ shim_pc = "clear"
    /\ terminal' = Append(terminal, Written("indicator", "clear"))
    /\ shim_pc' = "done"
    /\ UNCHANGED <<stop, shim_i, pc, poe_result, think_frame>>

ShimmerNext ==
    \/ ThinkStart \/ ThinkChat \/ ThinkSet \/ ThinkSleep \/ ThinkInspect
    \/ ShimTest \/ ShimWrite \/ ShimWait \/ ShimClear
SpecShimmer == ShimmerInit /\ [][ShimmerNext]_vars

(***************************************************************************)
(* trim_context                                                            *)
(***************************************************************************)
IsSystem(m) == m.role = "system"
\* a filter that leaves the system messages among the others
NotSystem_any(m) == TRUE
\* m.get("role") != "system"
NotSystem(m) == m.role # "system"

\* a trim that keeps the oldest turns instead of the most recent ones
trim_context_keeps_oldest(msgs) ==
    IF Len(msgs) <= MAX_CONTEXT_MESSAGES THEN msgs
    ELSE LET system == SelectSeq(msgs, IsSystem)
             others == SelectSeq(msgs, NotSystem)
             keep == Max(MAX_CONTEXT_MESSAGES - Len(system), 2)
         IN  system \o FirstN(others, keep)

\* a trim that is switched off
trim_context_off(msgs) == msgs

trim_context(msgs) ==
    IF Len(msgs) <= MAX_CONTEXT_MESSAGES THEN msgs
    ELSE LET system == SelectSeq(msgs, IsSystem)
             others == SelectSeq(msgs, NotSystem)
             keep == Max(MAX_CONTEXT_MESSAGES - Len(system), 2)
         IN  system \o LastN(others, keep)

(***************************************************************************)
(* extract_tool_calls                                                      *)
(* A response is its text and the tool-call candidates the text holds, in  *)
(* text order, with prose between them: kind is "fence" (a fenced block    *)
(* with its language tag, the body on lines of its own), "tag" (a <tool>   *)
(* pair) or "bare"; json tells whether the candidate's body parses         *)
(* ("object": a JSON object, "invalid": braces, not JSON, "truncated": an  *)
(* object cut before its closing brace, "list": a JSON list); tool_first   *)
(* tells whether the body is written with the tool key first.              *)
(***************************************************************************)
Seg(kind, lang, json, call) ==
    [kind |-> kind, lang |-> lang, json |-> json, call |-> call, tool_first |-> TRUE]

\* a payload that holds nested JSON objects (the items of edits or patches)
Nested(call) == call.edits # <<>> \/ call.patches # <<>>

\* the keys a payload can hold, in sorted order and in the order the texts of
\* the model write them after (or, with tool_first false, before) the tool key
SORTED_KEYS ==
    <<"action", "command", "content", "edits", "indices", "patches", "path",
      "pattern", "tasks", "title", "tool">>
OTHER_KEYS ==
    <<"path", "command", "content", "edits", "patches", "pattern", "action",
      "tasks", "indices", "title">>
HasKey(call, k) ==
    CASE k = "tool" -> call.tool.t # "absent"
      [] k = "path" -> call.path.t # "absent"
      [] k = "command" -> call.command.t # "absent"
      [] k = "content" -> call.content.present
      [] k = "edits" -> call.edits # <<>>
      [] k = "patches" -> call.patches # <<>>
      [] k = "pattern" -> call.pattern # <<>>
      [] k = "action" -> call.action.t # "absent"
      [] k = "tasks" -> call.tasks # <<>>
      [] k = "indices" -> call.indices # <<>>
      [] OTHER -> call.title.t # "absent"
\* the keys of the dict json.loads makes of a body, in insertion order
DictKeys(seg) ==
    LET InDict(k) == HasKey(seg.call, k)
        others == SelectSeq(OTHER_KEYS, InDict)
        first == SelectSeq(<<"tool">>, InDict)
    IN  IF seg.tool_first THEN first \o others ELSE others \o first
\* json.dumps(data, sort_keys=sort_keys): the members of the dict in sorted
\* key order, or in the order the dict holds them
dumps(seg, sort_keys) ==
    LET InDict(k) == HasKey(seg.call, k)
    IN  [keys |-> IF sort_keys THEN SelectSeq(SORTED_KEYS, InDict) ELSE DictKeys(seg),
         values |-> seg.call]

\* tools = [], seen = set()
NoTools == [tools |-> <<>>, seen |-> {}]

\* a loader whose key keeps the order in which the keys were written
add_tool_key_unsorted(acc, seg) ==
    IF seg.json = "object" /\ Truthy(GetStr(seg.call.tool))
       /\ dumps(seg, FALSE) \notin acc.seen
    THEN [tools |-> Append(acc.tools, seg.call),
          seen |-> acc.seen \cup {dumps(seg, FALSE)}]
    ELSE acc

\* add_tool: a dict with a truthy tool field whose key-sorted serialization
\* was not seen yet
add_tool(acc, seg) ==
    IF seg.json = "object" /\ Truthy(GetStr(seg.call.tool))
       /\ dumps(seg, TRUE) \notin acc.seen
    THEN [tools |-> Append(acc.tools, seg.call),
          seen |-> acc.seen \cup {dumps(seg, TRUE)}]
    ELSE acc

RECURSIVE AddAll(_, _)
AddAll(acc, segs) ==
    IF segs = <<>> THEN acc ELSE AddAll(add_tool(acc, Head(segs)), Tail(segs))

\* a body without its closing brace (the text was cut short)
Truncated(seg) == seg.json = "truncated"

\* pattern 1: the fence is followed by json or by nothing, then by an opening
\* brace
IsFenceMatch(seg) ==
    seg.kind = "fence" /\ seg.lang \in {"json", ""} /\ seg.json # "list"
IsTagMatch(seg) == seg.kind = "tag" /\ seg.json # "list"

\* pattern 3 matches {"tool": "<non-empty>" ... } that is not next to a
\* backtick or a word character: a bare object, and also the body of a fenced
\* block or of a <tool> pair (it follows a line break or ">")
IsBareMatch(seg) ==
    /\ seg.json # "list"
    /\ seg.tool_first
    /\ seg.call.tool.t = "str" /\ seg.call.tool.s # ""

\* the candidate of pattern 3 ends at the first closing brace that is not
\* followed by a backtick or a word character; the brace balancing finds an
\* end in it only when that brace closes the object
BareBalanced(seg) == ~Nested(seg.call)

\* where pattern p (1, 2, 3) can start a match
Opens(p, seg) ==
    CASE p = 1 -> IsFenceMatch(seg)
      [] p = 2 -> IsTagMatch(seg)
      [] OTHER -> IsBareMatch(seg)

\* where the lazy .+?\} of pattern p can end: a closing brace followed by the
\* closing fence (1), by </tool> (2), by no backtick or word character (3)
Closes(p, seg) ==
    /\ seg.json \in {"object", "invalid"}
    /\ CASE p = 1 -> seg.kind = "fence"
         [] p = 2 -> seg.kind = "tag"
         [] OTHER -> TRUE

\* the first candidate after position i at which pattern p can end; 0: none
NextClose(p, segs, i) ==
    LET js == {j \in (i + 1)..Len(segs) : Closes(p, segs[j])}
    IN  IF js = {} THEN 0 ELSE CHOOSE j \in js : \A k \in js : j <= k

\* what one match of pattern p adds: json.loads of the group, then add_tool
\* (pattern 3 first cuts its candidate at the balancing brace)
Load(p, acc, seg) ==
    IF p = 3 /\ ~BareBalanced(seg) THEN acc ELSE add_tool(acc, seg)

\* re.finditer of pattern p over the text, from candidate i on.  A match that
\* starts in a body without closing brace runs on to the next place where the
\* pattern can end: the text in between is one group, which json.loads
\* rejects, and the scan goes on after it.
RECURSIVE Scan(_, _, _, _)
Scan(p, acc, segs, i) ==
    IF i > Len(segs) THEN acc
    ELSE IF ~Opens(p, segs[i]) THEN Scan(p, acc, segs, i + 1)
    ELSE IF ~Truncated(segs[i]) THEN Scan(p, Load(p, acc, segs[i]), segs, i + 1)
    ELSE IF NextClose(p, segs, i) = 0 THEN Scan(p, acc, segs, i + 1)
    ELSE Scan(p, acc, segs, NextClose(p, segs, i) + 1)

\* an extraction whose third scan runs whatever the first two found
extract_tool_calls_always_scans(resp) ==
    LET p1 == Scan(1, NoTools, resp.segs, 1)
        p2 == Scan(2, p1, resp.segs, 1)
    IN  Scan(3, p2, resp.segs, 1).tools

extract_tool_calls(resp) ==
    LET p1 == Scan(1, NoTools, resp.segs, 1)
        p2 == Scan(2, p1, resp.segs, 1)
    IN  IF p2.tools # <<>> THEN p2.tools ELSE Scan(3, p2, resp.segs, 1).tools

(***************************************************************************)
(* The responses the backend gives in the model                            *)
(***************************************************************************)
CallReadA == Call(JStr("read_file"), JStr("/w/a"), JAbsent, NoText)
CallReadD == Call(JStr("read_file"), JStr("/w/d"), JAbsent, NoText)
CallWriteA == Call(JStr("write_file"), JStr("/w/a"), JAbsent, Text(TextAA))
CallBadCmd == Call(JStr("run_command"), JAbsent, JInt(5), NoText)
CallNoTool == Call(JStr(""), JAbsent, JAbsent, NoText)
CallEditA ==
    [Call(JStr("edit_file"), JStr("/w/a"), JAbsent, NoText) EXCEPT
        !.edits = <<[find |-> <<"a">>, replace |-> <<"b">>]>>]

\* the payloads as the model writes them
JReadA == "{\"tool\": \"read_file\", \"path\": \"/w/a\"}"
JReadASwapped == "{\"path\": \"/w/a\", \"tool\": \"read_file\"}"
JReadD == "{\"tool\": \"read_file\", \"path\": \"/w/d\"}"
JWriteA == "{\"tool\": \"write_file\", \"path\": \"/w/a\", \"content\": \"a a\"}"
JEditA == "{\"tool\": \"edit_file\", \"path\": \"/w/a\", \"edits\": [{\"find\": \"a\", \"replace\": \"b\"}]}"
JReadDSwapped == "{\"path\": \"/w/d\", \"tool\": \"read_file\"}"
JNoTool == "{\"tool\": \"\"}"
JOops == "{oops}"
JTruncated == "{\"tool\": \"read_file\", \"path\": "
JListText == "[1, 2]"

\* the three backticks of a code fence (a TLA+ string cannot hold a backtick)
FENCE == "<fence>"
FencedJson(body) == FENCE \o "json\n" \o body \o "\n" \o FENCE

RFinal == [text |-> "Done.", segs |-> <<>>]
RMalformed ==
    [text |-> FencedJson("{\"tool\": \"\"}") \o "\n" \o FencedJson("{oops}"),
     segs |-> <<Seg("fence", "json", "object", CallNoTool),
                Seg("fence", "json", "invalid", CallNoTool)>>]
RBadCmd ==
    [text |-> FencedJson("{\"tool\": \"read_file\", \"path\": \"/w/a\"}")
              \o "\n" \o FencedJson("{\"tool\": \"run_command\", \"command\": 5}"),
     segs |-> <<Seg("fence", "json", "object", CallReadA),
                Seg("fence", "json", "object", CallBadCmd)>>]

\* one write_file call
RWrite ==
    [text |-> FencedJson(JWriteA),
     segs |-> <<Seg("fence", "json", "object", CallWriteA)>>]
\* a <tool> pair first, a fenced block after it
RTagThenFence ==
    [text |-> "<tool>" \o JReadD \o "</tool>\n" \o FencedJson(JReadA),
     segs |-> <<Seg("tag", "", "object", CallReadD),
                Seg("fence", "json", "object", CallReadA)>>]

Responses == {RFinal, RMalformed, RBadCmd, RWrite, RTagThenFence}

\* a response with a call the permission gate applies to
Gated(resp) ==
    \E i \in 1..Len(resp.segs) : IsDestructive(GetStr(resp.segs[i].call.tool))

\* what chat() returns
BackendResults ==
    {[ok |-> TRUE, resp |-> r, error |-> ""] : r \in Responses}
    \cup {[ok |-> FALSE, resp |-> NoResponse, error |-> "Key 1: HTTP 500"]}

(***************************************************************************)
(* agent_loop                                                              *)
(***************************************************************************)
\* an entry that does not say why a call failed
tool_entry_hides_error(tool_name, res) ==
    IF res.ok THEN "[" \o tool_name \o "] Success:\n" \o Get(res.result, "")
    ELSE "[" \o tool_name \o "] Error: Failed"

\* the entry collected for one executed call
tool_entry(tool_name, res) ==
    IF res.ok THEN "[" \o tool_name \o "] Success:\n" \o Get(res.result, "")
    ELSE "[" \o tool_name \o "] Error: " \o Get(res.error, "Failed")

\* tool results first, the assistant turn last
tools_messages_swapped(msgs, text, results) ==
    msgs \o <<Msg("user", "Tool results:\n" \o Join(results, "\n\n")),
              Msg("assistant", text)>>

\* the conversation after an iteration with tool calls
tools_messages(msgs, text, results) ==
    msgs \o <<Msg("assistant", text),
              Msg("user", "Tool results:\n" \o Join(results, "\n\n"))>>

\* a final answer that is shown but not stored
final_messages_dropped(msgs, text) == msgs

\* the conversation after the final answer
final_messages(msgs, text) == Append(msgs, Msg("assistant", text))

\* a loop that runs one iteration too many
range_has_next_off_by_one(i) == i <= MAX_TOOL_LOOPS

\* for loop_i in range(MAX_TOOL_LOOPS): is there an iteration number i (0-based)
range_has_next(i) == i < MAX_TOOL_LOOPS

\* a loop that tries the backend again after a failure
chat_outcome_retry(msgs, result, found) ==
    IF ~result.ok THEN [messages |-> msgs, pc |-> "loop", kind |-> "failed"]
    ELSE IF found # <<>> THEN [messages |-> msgs, pc |-> "tools", kind |-> "running"]
    ELSE [messages |-> final_messages(msgs, result.resp.text), pc |-> "returned",
          kind |-> "final"]

\* what an iteration does with the backend's result and the extracted calls
chat_outcome(msgs, result, found) ==
    IF ~result.ok THEN [messages |-> msgs, pc |-> "returned", kind |-> "failed"]
    ELSE IF found # <<>> THEN [messages |-> msgs, pc |-> "tools", kind |-> "running"]
    ELSE [messages |-> final_messages(msgs, result.resp.text), pc |-> "returned",
          kind |-> "final"]

\* the operating system's answers in the loop specifications
LoopEnvs == {"ok"}

\* trim, call the backend, extract: the top of one iteration.  result is what
\* chat() returns.
AgentChat(result) ==
    /\ pc = "loop"
    /\ LET msgs == trim_context(messages)
           found == IF result.ok THEN extract_tool_calls(result.resp) ELSE <<>>
           o == chat_outcome(msgs, result, found)
       IN  /\ sent' = msgs
           /\ turn_start' = IF loop_i = 0 THEN messages ELSE turn_start
           /\ backend_calls' = backend_calls + 1
           /\ messages' = o.messages
           /\ pc' = o.pc
           /\ last_iter' = [kind |-> o.kind, before |-> msgs,
                            response |-> result.resp.text, k |-> Len(found),
                            execs |-> 0, log |-> <<>>]
           /\ iter_execs' = 0
           /\ IF o.kind = "running"
              THEN /\ response' = result.resp
                   /\ tools' = found
                   /\ tool_results' = <<>>
              ELSE /\ response' = IF result.ok THEN result.resp ELSE response
                   /\ UNCHANGED <<tools, tool_results>>
    /\ UNCHANGED <<trust_session, session_todo, fs, last_exec, loop_i, poe_vars>>

\* execute the next tool call of the response; after the last one append the
\* two messages and go to the next iteration, or leave the loop at the cap
AgentExec ==
    /\ pc = "tools"
    /\ \E answer \in Answers, env \in LoopEnvs :
         LET call == Head(tools)
             out == execute_tool(call, trust_session, fs, session_todo, answer, env)
             tool_name == PyStr(call.tool)
             results == Append(tool_results, tool_entry(tool_name, out.res))
             log == Append(last_iter.log,
                           [tool |-> tool_name, call |-> call, ok |-> out.res.ok,
                            result |-> out.res.result, error |-> out.res.error])
         IN  /\ last_exec' = [call |-> call, trust_before |-> trust_session,
                              answer |-> IF out.prompted THEN answer ELSE NoAnswer,
                              env |-> env, fs_before |-> fs, todo_before |-> session_todo,
                              out |-> out]
             /\ trust_session' = out.trust
             /\ fs' = out.fs
             /\ session_todo' = out.todo
             /\ iter_execs' = iter_execs + 1
             /\ IF out.raised
                THEN /\ pc' = "raised"
                     /\ last_iter' = [last_iter EXCEPT !.kind = "raised",
                                                       !.execs = iter_execs + 1]
                     /\ UNCHANGED <<messages, tools, tool_results, loop_i>>
                ELSE IF Tail(tools) # <<>>
                THEN /\ tools' = Tail(tools)
                     /\ tool_results' = results
                     /\ last_iter' = [last_iter EXCEPT !.execs = iter_execs + 1,
                                                       !.log = log]
                     /\ UNCHANGED <<messages, pc, loop_i>>
                ELSE /\ tools' = <<>>
                     /\ tool_results' = results
                     /\ messages' = tools_messages(messages, response.text, results)
                     /\ loop_i' = loop_i + 1
                     /\ pc' = IF range_has_next(loop_i + 1) THEN "loop" ELSE "returned"
                     /\ last_iter' = [last_iter EXCEPT !.kind = "tools",
                                                       !.execs = iter_execs + 1,
                                                       !.log = log]
    /\ UNCHANGED <<response, sent, turn_start, backend_calls, poe_vars>>

(***************************************************************************)
(* SpecLoop: one agent_loop invocation, as main makes it                   *)
(***************************************************************************)
\* a stored conversation of n earlier non-system messages
OldConversation(n) ==
    <<Msg("system", SYSTEM_PROMPT)>>
    \o [i \in 1..n |-> Msg(IF i % 2 = 1 THEN "user" ELSE "assistant",
                          "m" \o ToString(i))]

InitialFs == [p \in Paths |-> IF p = "/w/d" THEN Dir ELSE Missing]

LoopInit ==
    /\ messages \in {Append(OldConversation(n), Msg("user", "hi")) :
                       n \in {0, MAX_CONTEXT_MESSAGES - 1}}
    /\ trust_session \in BOOLEAN
    /\ session_todo = NoTodo
    /\ fs = InitialFs
    /\ pc = "loop"
    /\ last_exec = NoExec
    /\ gated_used = 0 /\ session_calls = 0
    /\ LoopIdle /\ PoeIdle /\ ConfigIdle

LoopChat ==
    /\ \E result \in BackendResults :
         LET gated == result.ok /\ Gated(result.resp)
         IN  /\ gated => gated_used < MaxGated
             /\ AgentChat(result)
             /\ gated_used' = IF gated THEN gated_used + 1 ELSE gated_used
    /\ UNCHANGED session_calls

LoopExec == AgentExec /\ UNCHANGED <<gated_used, session_calls>>

LoopNext == LoopChat \/ LoopExec
SpecLoop == LoopInit /\ [][LoopNext]_vars
\* the control thread keeps running while it has a step to take
FairSpecLoop == SpecLoop /\ WF_vars(LoopNext)

(***************************************************************************)
(* Spec: a session of main                                                 *)
(***************************************************************************)
\* the keys of MODELS and of EXPERIMENTS, in the order the menus list them
MODELS == <<"codex", "grok", "haiku", "gpt", "sonnet", "opus", "gemini">>
EXPERIMENTS == <<"reasoning", "planning", "verbose", "details">>

PLANNING_HINT ==
    "\n\n[If this is a multi-step task, create a TODO list first using the todo tool, then check off items as you complete them.]"

\* main, lines 1388 to 1391: msg, the content made of the line typed
user_message(user_input, st) ==
    IF st.experiments.planning THEN user_input \o PLANNING_HINT ELSE user_input

\* the settings and the settings file a command leaves behind
Config(st, file) == [settings |-> st, settings_file |-> file]

\* model_selector: ollama is what get_ollama_models() returns, pressed the keys
\* given to the menu
model_selector(st, file, ollama, pressed) ==
    IF st.mode = "local"
    THEN IF ollama = <<>> THEN Config(st, file)
         ELSE LET choice == arrow_select(ollama, 0, pressed)
                  chosen == [st EXCEPT !.ollama_model = choice]
              IN  IF choice = "Esc" THEN Config(st, file)
                  ELSE Config(chosen, save_settings(chosen))
    ELSE LET choice == arrow_select(MODELS, 0, pressed)
             chosen == [st EXCEPT !.model = choice]
         IN  IF choice = "Esc" THEN Config(st, file)
             ELSE Config(chosen, save_settings(chosen))

\* experiment_selector: runs holds the keys given to each menu the loop shows
RECURSIVE experiment_selector(_, _, _)
experiment_selector(st, file, runs) ==
    IF runs = <<>> THEN Config(st, file)
    ELSE LET choice == arrow_select(EXPERIMENTS \o <<"Done">>, 0, Head(runs))
             toggled == [st EXCEPT !.experiments[choice] = ~@]
         IN  IF choice \in {"Done", "Esc"} THEN Config(st, file)
             ELSE experiment_selector(toggled, save_settings(toggled), Tail(runs))

\* k times DOWN and the key that leaves the menu
MenuRun(k, end) == [i \in 1..k |-> "down"] \o <<end>>

\* the keys given to the model menu, and the model lists of a local server
ModelRuns == {MenuRun(0, "enter"), MenuRun(1, "enter"), MenuRun(5, "enter"), <<"esc">>}
OllamaLists == {<<>>, <<"llama3", "mistral">>}

\* the keys given to the menus of one /experiments: up to two toggles, then
\* Done or escape
ToggleRuns == {MenuRun(k, "enter") : k \in 0..(Len(EXPERIMENTS) - 1)}
LeaveRuns == {MenuRun(Len(EXPERIMENTS), "enter"), <<"esc">>}
ExperimentRuns ==
    {<<l>> : l \in LeaveRuns}
    \cup {<<t, l>> : t \in ToggleRuns, l \in LeaveRuns}
    \cup {<<t, u, l>> : t \in ToggleRuns, u \in ToggleRuns, l \in LeaveRuns}

\* what /load can find in the configuration directory when the session starts
\* (load_conversation takes any JSON list of objects): a short conversation, a
\* list that does not start with the system prompt, a conversation longer than
\* the context limit, and a list of many system messages
ManySystems ==
    [i \in 1..MAX_CONTEXT_MESSAGES |-> Msg("system", "s" \o ToString(i))]
    \o <<Msg("user", "old")>>
SavedFiles ==
    [n \in ConvNames |->
        CASE n = "short" -> <<Msg("system", SYSTEM_PROMPT), Msg("user", "old"),
                              Msg("assistant", "ans")>>
          [] n = "nosys" -> <<Msg("user", "old")>>
          [] n = "long" -> OldConversation(MAX_CONTEXT_MESSAGES + 4)
          [] n = "systems" -> ManySystems
          [] OTHER -> NoConversation]
\* the names /save is given
SaveNames == {"s1"}

\* save_conversation: the file holds the list as JSON, which load_conversation
\* parses back to the same list of role and content
save_conversation(files, conv, name) == [files EXCEPT ![name] = conv]
\* load_conversation: None for a name without a file
load_conversation(files, name) == files[name]

Init ==
    /\ messages = <<Msg("system", SYSTEM_PROMPT)>>
    /\ trust_session = FALSE
    /\ session_todo = NoTodo
    /\ fs = InitialFs
    /\ pc = "input"
    /\ last_exec = NoExec
    /\ gated_used = 0 /\ session_calls = 0
    /\ LoopIdle /\ PoeIdle
    /\ settings_file = NoSettingsFile
    /\ conv_files = SavedFiles

\* what a command leaves alone besides the conversation, the settings and the
\* files
cmd_frame == <<fs, pc, last_exec, gated_used, loop_vars, key_file, keys, poe_msgs,
               poe_i, errors, attempts, poe_result, shim_vars>>

\* main: a line that is not a command is appended and handed to agent_loop
UserInput ==
    /\ pc = "input"
    /\ session_calls < MaxSessionCalls
    /\ messages' = Append(messages, Msg("user", user_message("hi", settings)))
    /\ pc' = "loop"
    /\ loop_i' = 0 /\ response' = NoResponse /\ tools' = <<>> /\ tool_results' = <<>>
    /\ sent' = <<>> /\ backend_calls' = 0 /\ iter_execs' = 0 /\ last_iter' = NoIter
    /\ turn_start' = <<>>
    /\ last_exec' = NoExec
    /\ UNCHANGED <<trust_session, session_todo, fs, gated_used, session_calls, poe_vars>>

\* main: messages = agent_loop(...)
MainResume ==
    /\ pc = "returned"
    /\ pc' = "input"
    /\ UNCHANGED <<messages, trust_session, session_todo, fs, last_exec, gated_used,
                   session_calls, loop_vars, poe_vars>>

\* handle_command: /reset
CmdReset ==
    /\ pc = "input"
    /\ messages' = <<Msg("system", SYSTEM_PROMPT)>>
    /\ trust_session' = FALSE
    /\ session_todo' = NoTodo
    /\ UNCHANGED <<fs, pc, last_exec, gated_used, session_calls, loop_vars, poe_vars>>

\* handle_command: /load with the name of a conversation, typed or taken from
\* the menu of the stored names
CmdLoad ==
    /\ pc = "input"
    /\ \E name \in ConvNames :
         LET loaded == load_conversation(conv_files, name)
         IN  messages' = IF loaded # NoConversation THEN loaded ELSE messages
    /\ UNCHANGED <<trust_session, session_todo, fs, pc, last_exec, gated_used,
                   session_calls, loop_vars, poe_vars>>

\* handle_command: /save
CmdSave ==
    /\ pc = "input"
    /\ session_calls < MaxSessionCalls
    /\ \E name \in SaveNames :
         conv_files' = save_conversation(conv_files, messages, name)
    /\ session_calls' = session_calls + 1
    /\ UNCHANGED <<messages, trust_session, session_todo, settings, settings_file,
                   cmd_frame>>

\* handle_command: /model and /models
CmdModel ==
    /\ pc = "input"
    /\ session_calls < MaxSessionCalls
    /\ \E ollama \in OllamaLists, pressed \in ModelRuns :
         LET c == model_selector(settings, settings_file, ollama, pressed)
         IN  settings' = c.settings /\ settings_file' = c.settings_file
    /\ session_calls' = session_calls + 1
    /\ UNCHANGED <<messages, trust_session, session_todo, conv_files, cmd_frame>>

\* handle_command: /experiments
CmdExperiments ==
    /\ pc = "input"
    /\ session_calls < MaxSessionCalls
    /\ \E runs \in ExperimentRuns :
         LET c == experiment_selector(settings, settings_file, runs)
         IN  settings' = c.settings /\ settings_file' = c.settings_file
    /\ session_calls' = session_calls + 1
    /\ UNCHANGED <<messages, trust_session, session_todo, conv_files, cmd_frame>>

\* handle_command: /local, which asks check_ollama() whether a server answers
CmdLocal ==
    /\ pc = "input"
    /\ session_calls < MaxSessionCalls
    /\ \E running \in BOOLEAN :
         IF running
         THEN /\ settings' = [settings EXCEPT !.mode = "local"]
              /\ settings_file' = save_settings(settings')
         ELSE UNCHANGED <<settings, settings_file>>
    /\ session_calls' = session_calls + 1
    /\ UNCHANGED <<messages, trust_session, session_todo, conv_files, cmd_frame>>

\* handle_command: /cloud
CmdCloud ==
    /\ pc = "input"
    /\ session_calls < MaxSessionCalls
    /\ settings' = [settings EXCEPT !.mode = "cloud"]
    /\ settings_file' = save_settings(settings')
    /\ session_calls' = session_calls + 1
    /\ UNCHANGED <<messages, trust_session, session_todo, conv_files, cmd_frame>>

SessionChat ==
    /\ session_calls < MaxSessionCalls
    /\ \E result \in BackendResults : AgentChat(result)
    /\ session_calls' = session_calls + 1
    /\ UNCHANGED gated_used

SessionExec == AgentExec /\ UNCHANGED <<gated_used, session_calls>>

Next ==
    \/ UserInput
    \/ SessionChat
    \/ SessionExec
    \/ MainResume
    \/ CmdReset
    \/ CmdLoad
    \/ CmdSave
    \/ CmdModel
    \/ CmdExperiments
    \/ CmdLocal
    \/ CmdCloud

Spec == Init /\ [][Next]_vars

(***************************************************************************)
(* SpecTrim: trim_context applied to a conversation                        *)
(***************************************************************************)
SysMsgs(s) == [i \in 1..s |-> Msg("system", "s" \o ToString(i))]
OtherMsgs(n) ==
    [i \in 1..n |-> Msg(IF i % 2 = 1 THEN "user" ELSE "assistant", "m" \o ToString(i))]

\* s system messages placed after the first split of n other messages
Conv(s, n, split) ==
    LET k == Min(split, n)
    IN  [i \in 1..k |-> OtherMsgs(n)[i]] \o SysMsgs(s)
        \o [i \in 1..(n - k) |-> OtherMsgs(n)[k + i]]

TrimSystemCounts == {0, 1, 2} \cup ((MaxSystems - 3)..MaxSystems)
TrimOtherCounts == {0, 1, 2, 3} \cup ((MaxOthers - 14)..MaxOthers)
TrimInputs ==
    {Conv(s, n, split) : s \in TrimSystemCounts, n \in TrimOtherCounts,
                         split \in {0, 1, 20}}

TrimInit ==
    /\ messages \in {c \in TrimInputs : c # <<>>}
    /\ trust_session = FALSE
    /\ session_todo = NoTodo
    /\ fs = [p \in Paths |-> Missing]
    /\ pc = "trim"
    /\ last_exec = NoExec
    /\ gated_used = 0 /\ session_calls = 0
    /\ LoopIdle /\ PoeIdle /\ ConfigIdle

\* messages = trim_context(messages), as the top of an iteration does it
TrimCall ==
    /\ pc = "trim"
    /\ sent' = trim_context(messages)
    /\ pc' = "trimmed"
    /\ UNCHANGED <<messages, trust_session, session_todo, fs, last_exec, gated_used,
                   session_calls, loop_i, response, tools, tool_results, turn_start,
                   backend_calls, iter_execs, last_iter, poe_vars>>

\* the caller takes the result and trims it again
TrimAgain ==
    /\ pc = "trimmed"
    /\ messages' = sent
    /\ pc' = "trim"
    /\ UNCHANGED <<trust_session, session_todo, fs, last_exec, gated_used,
                   session_calls, loop_vars, poe_vars>>

TrimNext == TrimCall \/ TrimAgain
SpecTrim == TrimInit /\ [][TrimNext]_vars

(***************************************************************************)
(* SpecExtract: extract_tool_calls applied to a response text              *)
(***************************************************************************)
SFenceReadA == Seg("fence", "json", "object", CallReadA)
SFenceReadASwapped == [Seg("fence", "json", "object", CallReadA) EXCEPT !.tool_first = FALSE]
SFenceReadD == Seg("fence", "", "object", CallReadD)
SFenceEditA == Seg("fence", "json", "object", CallEditA)
SFenceInvalid == Seg("fence", "json", "invalid", CallNoTool)
SFenceNoTool == Seg("fence", "json", "object", CallNoTool)
SPythonWriteA == Seg("fence", "python", "object", CallWriteA)
SBashReadDSwapped == [Seg("fence", "bash", "object", CallReadD) EXCEPT !.tool_first = FALSE]
STagReadD == Seg("tag", "", "object", CallReadD)
SBareReadA == Seg("bare", "", "object", CallReadA)
SBareEditA == Seg("bare", "", "object", CallEditA)
SFenceTruncated == Seg("fence", "json", "truncated", CallReadA)
STagTruncated == Seg("tag", "", "truncated", CallReadA)
SFenceList == Seg("fence", "json", "list", CallNoTool)

SegPool ==
    {SFenceReadA, SFenceReadASwapped, SFenceReadD, SFenceEditA, SFenceInvalid,
     SFenceNoTool, SPythonWriteA, SBashReadDSwapped, STagReadD, SBareReadA, SBareEditA,
     SFenceTruncated, STagTruncated, SFenceList}

\* the JSON text of a candidate
BodyText(seg) ==
    CASE seg.json = "invalid" -> JOops
      [] seg.json = "truncated" -> JTruncated
      [] seg.json = "list" -> JListText
      [] seg.call = CallNoTool -> JNoTool
      [] seg.call = CallReadA -> IF seg.tool_first THEN JReadA ELSE JReadASwapped
      [] seg.call = CallReadD -> IF seg.tool_first THEN JReadD ELSE JReadDSwapped
      [] seg.call = CallWriteA -> JWriteA
      [] OTHER -> JEditA

\* a candidate as it stands in the text
SegText(seg) ==
    CASE seg.kind = "fence" -> FENCE \o seg.lang \o "\n" \o BodyText(seg) \o "\n" \o FENCE
      [] seg.kind = "tag" -> "<tool>" \o BodyText(seg) \o "</tool>"
      [] OTHER -> BodyText(seg)

\* the prose between two candidates
PROSE == "\nthen\n"

ResponseOf(segs) ==
    [text |-> Join([i \in 1..Len(segs) |-> SegText(segs[i])], PROSE), segs |-> segs]

ExtractInputs ==
    {ResponseOf(segs) : segs \in UNION {[1..n -> SegPool] : n \in 0..MaxSegs}}

ExtractInit ==
    /\ messages = <<Msg("system", SYSTEM_PROMPT), Msg("user", "hi")>>
    /\ trust_session = FALSE
    /\ session_todo = NoTodo
    /\ fs = [p \in Paths |-> Missing]
    /\ pc = "extract"
    /\ last_exec = NoExec
    /\ gated_used = 0 /\ session_calls = 0
    /\ loop_i = 0 /\ tools = <<>> /\ tool_results = <<>>
    /\ sent = <<>> /\ backend_calls = 0 /\ iter_execs = 0 /\ last_iter = NoIter
    /\ turn_start = <<>>
    /\ response \in ExtractInputs
    /\ PoeIdle /\ ConfigIdle

\* tools = extract_tool_calls(response)
ExtractCall ==
    /\ pc = "extract"
    /\ tools' = extract_tool_calls(response)
    /\ pc' = "extracted"
    /\ UNCHANGED <<messages, trust_session, session_todo, fs, last_exec, gated_used,
                   session_calls, loop_i, response, tool_results, sent, turn_start,
                   backend_calls, iter_execs, last_iter, poe_vars>>

ExtractNext == ExtractCall
SpecExtract == ExtractInit /\ [][ExtractNext]_vars

(***************************************************************************)
(* SpecTodo: the todo tool called through execute_tool, and /reset         *)
(***************************************************************************)
TodoCallOf(action, tasks, indices, title) ==
    [Call(JStr("todo"), JAbsent, JAbsent, NoText) EXCEPT
        !.action = action, !.tasks = tasks, !.indices = indices, !.title = title]

TaskNames(n) == [i \in 1..n |-> "t" \o ToString(i)]

\* the task lists a create is given: none, three tasks, more than the cap
TaskLists == {<<>>, TaskNames(3), TaskNames(MaxTasks)}

\* the indices a check is given: none, one out of range, one twice, one below
\* and one above the range
IndexLists == {<<>>, <<1, 5>>, <<2, 2>>, <<2>>, <<0, MaxTasks + 1>>}

TodoCalls ==
    {TodoCallOf(JStr("create"), ts, <<>>, t) :
        ts \in TaskLists, t \in {JAbsent, JStr("Plan B")}}
    \cup {TodoCallOf(JStr("check"), <<>>, ix, JAbsent) : ix \in IndexLists}
    \cup {TodoCallOf(a, <<>>, <<>>, JAbsent) :
            a \in {JStr("show"), JStr("clear"), JStr("bogus"), JAbsent}}

TodoInit ==
    /\ messages = <<Msg("system", SYSTEM_PROMPT)>>
    /\ trust_session = FALSE
    /\ session_todo = NoTodo
    /\ fs = [p \in Paths |-> Missing]
    /\ pc = "todo"
    /\ last_exec = NoExec
    /\ gated_used = 0 /\ session_calls = 0
    /\ LoopIdle /\ PoeIdle /\ ConfigIdle

\* execute_tool on a todo payload
TodoCall ==
    /\ pc = "todo"
    /\ \E call \in TodoCalls, answer \in Answers :
         LET out == execute_tool(call, trust_session, fs, session_todo, answer, "ok")
         IN  /\ last_exec' = [call |-> call, trust_before |-> trust_session,
                              answer |-> IF out.prompted THEN answer ELSE NoAnswer,
                              env |-> "ok", fs_before |-> fs,
                              todo_before |-> session_todo, out |-> out]
             /\ trust_session' = out.trust
             /\ fs' = out.fs
             /\ session_todo' = out.todo
             /\ pc' = IF out.raised THEN "raised" ELSE "todo"
    /\ UNCHANGED <<messages, gated_used, session_calls, loop_vars, poe_vars>>

\* a /reset that keeps the task list
TodoReset_keeps_list ==
    /\ pc = "todo"
    /\ messages' = <<Msg("system", SYSTEM_PROMPT)>>
    /\ trust_session' = FALSE
    /\ last_exec' = NoExec
    /\ UNCHANGED <<session_todo, fs, pc, gated_used, session_calls, loop_vars, poe_vars>>

\* handle_command("/reset") between two calls
TodoReset ==
    /\ pc = "todo"
    /\ messages' = <<Msg("system", SYSTEM_PROMPT)>>
    /\ trust_session' = FALSE
    /\ session_todo' = NoTodo
    /\ last_exec' = NoExec
    /\ UNCHANGED <<fs, pc, gated_used, session_calls, loop_vars, poe_vars>>

TodoNext == TodoCall \/ TodoReset
SpecTodo == TodoInit /\ [][TodoNext]_vars

(***************************************************************************)
(* SpecRead: read_file called through execute_tool on files of every size  *)
(***************************************************************************)
\* sizes at and next to the two limits of read_file
ReadSizes ==
    {LARGE_FILE_SIZE, LARGE_FILE_SIZE + 1, MAX_FILE_SIZE, MAX_FILE_SIZE + 1}

ReadFiles ==
    {Missing, File(TextAA)} \cup {LargeFile(TextAA, size) : size \in ReadSizes}

ReadCalls ==
    {Call(JStr("read_file"), p, JAbsent, NoText) :
        p \in {JAbsent, JStr("/w/a"), JStr("/w/d"), JInt(5)}}

ReadInit ==
    /\ messages = <<Msg("system", SYSTEM_PROMPT)>>
    /\ trust_session \in BOOLEAN
    /\ session_todo = NoTodo
    /\ fs \in {[p \in Paths |-> IF p = "/w/d" THEN d ELSE a] :
                 a \in ReadFiles, d \in {Dir, File(TextAA)}}
    /\ pc = "call"
    /\ last_exec = NoExec
    /\ gated_used = 0 /\ session_calls = 0
    /\ LoopIdle /\ PoeIdle /\ ConfigIdle

ReadCall ==
    /\ pc = "call"
    /\ \E call \in ReadCalls, answer \in Answers, env \in {"ok", "perm"} :
         LET out == execute_tool(call, trust_session, fs, session_todo, answer, env)
         IN  /\ last_exec' = [call |-> call, trust_before |-> trust_session,
                              answer |-> IF out.prompted THEN answer ELSE NoAnswer,
                              env |-> env, fs_before |-> fs,
                              todo_before |-> session_todo, out |-> out]
             /\ trust_session' = out.trust
             /\ fs' = out.fs
             /\ session_todo' = out.todo
             /\ pc' = IF out.raised THEN "raised" ELSE "returned"
    /\ UNCHANGED <<messages, gated_used, session_calls, loop_vars, poe_vars>>

ReadNext == ReadCall \/ ExecAgain
SpecRead == ReadInit /\ [][ReadNext]_vars

(***************************************************************************)
(* SpecEdit: one edit_file call through execute_tool                       *)
(***************************************************************************)
EditPool ==
    {[find |-> f, replace |-> r] :
        f \in {<<"a">>, <<"b">>, <<"a", " ">>, <<"z">>, <<>>},
        r \in {<<"b">>, <<>>, <<"a", "a">>}}

EditLists == UNION {[1..n -> EditPool] : n \in 0..MaxEdits}

EditContents == {TextAA, <<"a", "b">>, <<"b", "a", "b", "a">>, <<>>}

EditCalls ==
    {[Call(JStr("edit_file"), JStr("/w/a"), JAbsent, NoText) EXCEPT !.edits = es] :
        es \in EditLists}

EditInit ==
    /\ messages = <<Msg("system", SYSTEM_PROMPT)>>
    /\ trust_session \in BOOLEAN
    /\ session_todo = NoTodo
    /\ fs \in {[p \in Paths |-> IF p = "/w/d" THEN Dir ELSE File(cs)] :
                 cs \in EditContents}
    /\ pc = "call"
    /\ last_exec = NoExec
    /\ gated_used = 0 /\ session_calls = 0
    /\ LoopIdle /\ PoeIdle /\ ConfigIdle

EditCall ==
    /\ pc = "call"
    /\ \E call \in EditCalls, answer \in Answers, env \in {"ok", "perm"} :
         LET out == execute_tool(call, trust_session, fs, session_todo, answer, env)
         IN  /\ last_exec' = [call |-> call, trust_before |-> trust_session,
                              answer |-> IF out.prompted THEN answer ELSE NoAnswer,
                              env |-> env, fs_before |-> fs,
                              todo_before |-> session_todo, out |-> out]
             /\ trust_session' = out.trust
             /\ fs' = out.fs
             /\ session_todo' = out.todo
             /\ pc' = IF out.raised THEN "raised" ELSE "returned"
    /\ UNCHANGED <<messages, gated_used, session_calls, loop_vars, poe_vars>>

EditNext == EditCall
SpecEdit == EditInit /\ [][EditNext]_vars

(***************************************************************************)
(* SpecPatch: one patch_file call through execute_tool                     *)
(***************************************************************************)
PatchActions == {"delete", "replace", "insert_after", "insert_before"}

\* patches on the lines 1..4 of a file of at most 3 lines
PatchPool ==
    {[line |-> l, action |-> a, content |-> IF a = "delete" THEN <<>> ELSE <<"X">>] :
        l \in 1..4, a \in PatchActions}

PatchLists == UNION {[1..n -> PatchPool] : n \in 0..MaxPatches}

\* three lines; two lines, the last one without its newline
PatchContents == {<<"a", "\n", "b", "\n", "c", "\n">>, <<"a", "\n", "b">>}

PatchCalls ==
    {[Call(JStr("patch_file"), JStr("/w/a"), JAbsent, NoText) EXCEPT !.patches = ps] :
        ps \in PatchLists}

PatchInit ==
    /\ messages = <<Msg("system", SYSTEM_PROMPT)>>
    /\ trust_session \in BOOLEAN
    /\ session_todo = NoTodo
    /\ fs \in {[p \in Paths |-> IF p = "/w/d" THEN Dir ELSE File(cs)] :
                 cs \in PatchContents}
    /\ pc = "call"
    /\ last_exec = NoExec
    /\ gated_used = 0 /\ session_calls = 0
    /\ LoopIdle /\ PoeIdle /\ ConfigIdle

PatchCall ==
    /\ pc = "call"
    /\ \E call \in PatchCalls, answer \in Answers, env \in {"ok", "perm"} :
         LET out == execute_tool(call, trust_session, fs, session_todo, answer, env)
         IN  /\ last_exec' = [call |-> call, trust_before |-> trust_session,
                              answer |-> IF out.prompted THEN answer ELSE NoAnswer,
                              env |-> env, fs_before |-> fs,
                              todo_before |-> session_todo, out |-> out]
             /\ trust_session' = out.trust
             /\ fs' = out.fs
             /\ session_todo' = out.todo
             /\ pc' = IF out.raised THEN "raised" ELSE "returned"
    /\ UNCHANGED <<messages, gated_used, session_calls, loop_vars, poe_vars>>

PatchNext == PatchCall
SpecPatch == PatchInit /\ [][PatchNext]_vars

(***************************************************************************)
(* SpecPrompt: execute_tool called again and again, the prompts answered   *)
(* through the keys of arrow_select                                        *)
(***************************************************************************)
RECURSIVE MoveRuns(_)
MoveRuns(n) ==
    IF n = 0 THEN {<<>>}
    ELSE MoveRuns(n - 1) \cup {Append(r, k) : r \in MoveRuns(n - 1), k \in MoveKeys}
\* the keys pressed at one prompt: some moves, then a key that ends the menu
KeyRuns == {Append(r, k) : r \in MoveRuns(MaxMoves), k \in EndKeys}

PromptCalls ==
    {Call(JStr("write_file"), JStr("/w/a"), JAbsent, Text(TextAA)),
     Call(JStr("delete_file"), JStr("/w/a"), JAbsent, NoText),
     Call(JStr("run_command"), JAbsent, JStr("ls"), NoText),
     Call(JStr("read_file"), JStr("/w/a"), JAbsent, NoText)}

PromptInit ==
    /\ messages = <<Msg("system", SYSTEM_PROMPT)>>
    /\ trust_session = FALSE
    /\ session_todo = NoTodo
    /\ fs = [p \in Paths |-> IF p = "/w/d" THEN Dir ELSE File(TextAA)]
    /\ pc = "call"
    /\ last_exec = NoExec
    /\ gated_used = 0 /\ session_calls = 0
    /\ LoopIdle /\ PoeIdle /\ ConfigIdle

\* one call of execute_tool; the keys are read only when a prompt is shown
PromptCall ==
    /\ pc = "call"
    /\ \E call \in PromptCalls, pressed \in KeyRuns :
         LET answer == arrow_select(PROMPT_OPTIONS, 0, pressed)
             out == execute_tool(call, trust_session, fs, session_todo, answer, "ok")
         IN  /\ last_exec' = [call |-> call, trust_before |-> trust_session,
                              answer |-> IF out.prompted THEN answer ELSE NoAnswer,
                              pressed |-> IF out.prompted THEN pressed ELSE <<>>,
                              env |-> "ok", fs_before |-> fs, todo_before |-> session_todo,
                              out |-> out]
             /\ trust_session' = out.trust
             /\ fs' = out.fs
             /\ session_todo' = out.todo
    /\ UNCHANGED <<messages, pc, gated_used, session_calls, loop_vars, poe_vars>>

PromptNext == PromptCall
SpecPrompt == PromptInit /\ [][PromptNext]_vars

(***************************************************************************)
(* SpecIter: one iteration of agent_loop on responses holding several tool *)
(* calls, some of them denied, failing or raising                          *)
(***************************************************************************)
CallDeleteA == Call(JStr("delete_file"), JStr("/w/a"), JAbsent, NoText)
JDeleteA == "{\"tool\": \"delete_file\", \"path\": \"/w/a\"}"
JBadCmd == "{\"tool\": \"run_command\", \"command\": 5}"

\* the response holding the given calls, each in a fenced json block
Fenced(texts, calls) ==
    [text |-> Join([i \in 1..Len(texts) |-> FencedJson(texts[i])], "\n"),
     segs |-> [i \in 1..Len(calls) |-> Seg("fence", "json", "object", calls[i])]]

IterResponses ==
    {Fenced(<<JWriteA, JDeleteA, JReadA>>, <<CallWriteA, CallDeleteA, CallReadA>>),
     Fenced(<<JDeleteA, JWriteA, JReadA>>, <<CallDeleteA, CallWriteA, CallReadA>>),
     Fenced(<<JReadD, JWriteA>>, <<CallReadD, CallWriteA>>),
     Fenced(<<JBadCmd, JReadA>>, <<CallBadCmd, CallReadA>>),
     Fenced(<<JDeleteA, JReadA>>, <<CallDeleteA, CallReadA>>),
     RFinal}

IterInit ==
    /\ messages = <<Msg("system", SYSTEM_PROMPT), Msg("user", "hi")>>
    /\ trust_session \in BOOLEAN
    /\ session_todo = NoTodo
    /\ fs \in {[p \in Paths |-> IF p = "/w/d" THEN Dir ELSE a] : a \in {Missing, File(TextAA)}}
    /\ pc = "loop"
    /\ last_exec = NoExec
    /\ gated_used = 0 /\ session_calls = 0
    /\ LoopIdle /\ PoeIdle /\ ConfigIdle

\* the backend call of the first iteration
IterChat ==
    /\ loop_i = 0
    /\ \E r \in IterResponses : AgentChat([ok |-> TRUE, resp |-> r, error |-> ""])
    /\ UNCHANGED <<gated_used, session_calls>>

IterExec == AgentExec /\ UNCHANGED <<gated_used, session_calls>>

IterNext == IterChat \/ IterExec
SpecIter == IterInit /\ [][IterNext]_vars

(***************************************************************************)
(* Properties                                                              *)
(***************************************************************************)
ExecOver == pc \in {"returned", "raised"}
LastCallDestructive ==
    last_exec.call.dict /\ IsDestructive(GetStr(last_exec.call.tool))
Approved ==
    \/ last_exec.trust_before
    \/ last_exec.out.prompted /\ last_exec.answer \in {"Yes", "Trust"}

\* C1 (SpecExec): when execute_tool has handled a call to one of the five
\* destructive tools, the handler ran (or the file system changed, or a shell
\* command was started) only if trust was already set or the gate was answered
\* Yes or Trust for this call; and when the gate was answered with a denial the
\* call returned {ok: false, error: "Denied by user"}, the handler did not run
\* and nothing was written, deleted or executed.
C1_GateBeforeHandler ==
    (ExecOver /\ LastCallDestructive) =>
        /\ (\/ last_exec.out.handler_ran
            \/ last_exec.out.effect # "none"
            \/ fs # last_exec.fs_before) => Approved
        /\ (last_exec.out.prompted /\ last_exec.answer \in {"No", "Esc"}) =>
              /\ ~last_exec.out.raised
              /\ ~last_exec.out.res.ok
              /\ last_exec.out.res.error = "Denied by user"
              /\ ~last_exec.out.handler_ran
              /\ last_exec.out.effect = "none"
              /\ fs = last_exec.fs_before

\* C1 witness: a write_file call with path and content was denied at the prompt
C1_DeniedWrite ==
    /\ pc = "returned"
    /\ IsTool(last_exec.call.tool, "write_file")
    /\ last_exec.call.path = JStr("/w/a") /\ last_exec.call.content.present
    /\ ~last_exec.trust_before /\ last_exec.answer = "No"
    /\ last_exec.out.res.error = "Denied by user"

\* C2 as stated (Spec): once the trust flag is set it stays set in every later
\* state, whatever tool calls, user inputs and slash-commands follow (so no
\* later destructive call shows a prompt).  The /reset command clears it.
C2_TrustNeverCleared == [][trust_session => trust_session']_vars

\* one agent_loop invocation is over
LoopOver == pc \in {"returned", "raised"}

\* C3 (FairSpecLoop): one agent_loop invocation makes at most MAX_TOOL_LOOPS
\* (15) backend calls, whatever the backend answers, and it ends: it returns,
\* unless a tool execution did not return to it (raised).
C3_BoundedLoop ==
    /\ [](backend_calls <= MAX_TOOL_LOOPS)
    /\ <>LoopOver

\* C3 witness: the loop returned after its 15th backend call, every response
\* holding a tool call
C3_CapReached ==
    /\ pc = "returned" /\ backend_calls = MAX_TOOL_LOOPS
    /\ loop_i = MAX_TOOL_LOOPS /\ last_iter.kind = "tools"

\* C4 as stated (SpecExec): execute_tool returns a ToolResult for every
\* payload and never raises.
C4_NeverRaises == ExecOver => ~last_exec.out.raised /\ pc = "returned"

TriedKeys == [i \in 1..Len(attempts) |-> attempts[i].key]
Failures == {i \in 1..Len(attempts) : attempts[i].outcome # "choice"}

\* C5 (SpecPoe): the credentials are tried in list order, each at most once;
\* every failed attempt records exactly one error string; nothing is tried
\* after a success, and chat_poe has returned ok exactly when the last attempt
\* succeeded.  With three credentials answering HTTP 500, HTTP 500 and a valid
\* choice the call succeeds with the third and two errors were recorded.
C5_FailoverOrder ==
    /\ TriedKeys = SubSeq(keys, 1, Len(attempts))
    /\ Len(attempts) <= Len(keys)
    /\ \A i \in 1..(Len(attempts) - 1) : attempts[i].outcome # "choice"
    /\ Len(errors) = Cardinality(Failures)
    /\ \A i \in Failures : \E j \in 1..Len(errors) : errors[j] = PoeError(i, attempts[i].outcome)
    /\ (pc = "poe_done" /\ poe_result.ok) <=>
          (attempts # <<>> /\ attempts[Len(attempts)].outcome = "choice")
    /\ (/\ Len(keys) = 3 /\ Len(attempts) = 3
        /\ attempts[1].outcome = "http_500" /\ attempts[2].outcome = "http_500"
        /\ attempts[3].outcome = "choice") =>
          /\ pc = "poe_done" /\ poe_result.ok
          /\ attempts[3].key = keys[3]
          /\ errors = <<"Key 1: HTTP 500", "Key 2: HTTP 500">>

\* C5 witness: the third of three credentials succeeded after two HTTP 500
C5_ThirdKeySucceeds ==
    /\ Len(keys) = 3 /\ pc = "poe_done" /\ poe_result.ok
    /\ Len(attempts) = 3 /\ attempts[3].key = keys[3]
    /\ errors = <<"Key 1: HTTP 500", "Key 2: HTTP 500">>

\* the error strings of all attempts, in attempt order
AttemptErrors == [i \in 1..Len(attempts) |-> PoeError(i, attempts[i].outcome)]

\* C6 (SpecPoe): when every credential of a non-empty list has failed,
\* chat_poe has returned ok = false after exactly one attempt per credential,
\* and its error text is the error strings of the last three attempts (all of
\* them when there are at most three), in attempt order, joined with "; ".
C6_AllFailed ==
    (pc = "poe_done" /\ ~poe_result.ok /\ keys # <<>>) =>
        /\ TriedKeys = keys
        /\ Failures = 1..Len(keys)
        /\ poe_result.error = Join(LastN(AttemptErrors, 3), "; ")

\* C6 witness: four credentials failed, so the first error is not shown
C6_FourFailed ==
    /\ pc = "poe_done" /\ ~poe_result.ok
    /\ Len(keys) = 4 /\ Len(attempts) = 4
    /\ attempts[1].outcome = "timeout" /\ attempts[4].outcome = "http_429"

\* the entry the synthetic turn holds for one logged execution
LoggedEntry(e) ==
    IF e.ok THEN "[" \o e.tool \o "] Success:\n" \o Get(e.result, "")
    ELSE "[" \o e.tool \o "] Error: " \o Get(e.error, "Failed")
LoggedEntries == [i \in 1..Len(last_iter.log) |-> LoggedEntry(last_iter.log[i])]

\* C7 as stated (SpecLoop): an iteration whose response yields k >= 1 tool
\* calls calls execute_tool exactly k times and then appends exactly two
\* messages, the assistant turn with the raw text and one user turn with the k
\* entries in execution order, and goes on to the next iteration (or leaves the
\* loop, after the last one).
C7_ToolIteration ==
    (last_iter.kind \in {"tools", "raised"}) =>
        /\ last_iter.k >= 1
        /\ last_iter.execs = last_iter.k
        /\ Len(last_iter.log) = last_iter.k
        /\ messages = last_iter.before \o
              <<Msg("assistant", last_iter.response),
                Msg("user", "Tool results:\n" \o Join(LoggedEntries, "\n\n"))>>
        /\ pc = IF loop_i < MAX_TOOL_LOOPS THEN "loop" ELSE "returned"

\* C8 (SpecLoop): an iteration whose response yields no tool call (also one
\* whose only candidates are malformed) executes no tool, appends exactly one
\* message, the assistant turn holding the response, and agent_loop returns
\* with no further backend call.
C8_FinalAnswer ==
    /\ (last_iter.kind \in {"running", "tools", "raised"}) =>
          extract_tool_calls(response) # <<>>
    /\ (last_iter.kind = "final") =>
          /\ extract_tool_calls(response) = <<>>
          /\ last_iter.response = response.text
          /\ last_iter.k = 0 /\ last_iter.execs = 0 /\ iter_execs = 0
          /\ messages = Append(last_iter.before, Msg("assistant", last_iter.response))
          /\ last_iter.before = sent
          /\ pc = "returned"
          /\ backend_calls = loop_i + 1

\* C8 witness: the response held malformed candidates only
C8_MalformedOnly ==
    /\ last_iter.kind = "final" /\ pc = "returned"
    /\ response = RMalformed /\ loop_i > 0

\* C9 (SpecLoop): when the backend call of an iteration fails, agent_loop
\* returns at once: no further backend call, no tool executed and no message
\* appended in that iteration; the returned conversation is the one that was
\* sent and ends with its last message.
C9_BackendFailure ==
    (last_iter.kind = "failed") =>
        /\ pc = "returned"
        /\ backend_calls = loop_i + 1
        /\ last_iter.execs = 0 /\ last_iter.k = 0 /\ iter_execs = 0
        /\ messages = sent
        /\ messages[Len(messages)] = sent[Len(sent)]
        /\ messages[Len(messages)].role = "user"

\* C9 witness: the backend failed in a later iteration of a long conversation
C9_FailedAfterTools ==
    /\ last_iter.kind = "failed" /\ pc = "returned" /\ loop_i > 0
    /\ Len(messages) = MAX_CONTEXT_MESSAGES

LastMessage == messages[Len(messages)]
EndsWithFinalAnswer ==
    last_iter.kind = "final" /\ LastMessage = Msg("assistant", last_iter.response)
CapWithTools ==
    /\ last_iter.kind = "tools" /\ last_iter.k >= 1
    /\ loop_i = MAX_TOOL_LOOPS /\ backend_calls = MAX_TOOL_LOOPS

\* C10 as stated (SpecLoop): agent_loop returns a conversation that does not
\* end with the assistant's final answer only when the cap was reached with
\* tool calls in the last response.
C10_OnlyCapLacksAnswer ==
    pc = "returned" => (EndsWithFinalAnswer \/ CapWithTools)

\* C10 amended (SpecLoop): agent_loop returns a conversation that does not end
\* with the assistant's final answer only when the cap was reached with tool
\* calls in the last response or when the backend call of its last iteration
\* failed; in both cases the conversation ends with a user turn.  When the last
\* response held no tool call the conversation ends with that response.
C10_ExitPaths ==
    pc = "returned" =>
        \/ EndsWithFinalAnswer
        \/ CapWithTools /\ LastMessage.role = "user"
        \/ last_iter.kind = "failed" /\ LastMessage.role = "user"

\* C10 witness: the cap was reached, the conversation ends with tool results
C10_CapExit ==
    pc = "returned" /\ CapWithTools /\ LastMessage.role = "user"

\* an iteration whose response held one write_file call, denied at the prompt
DeniedWriteIteration ==
    /\ last_iter.kind = "tools" /\ response = RWrite
    /\ last_exec.call = CallWriteA
    /\ last_exec.out.prompted /\ last_exec.answer \in {"No", "Esc"}

\* what the denied iteration leaves: no file written, the assistant turn and a
\* user turn holding "Denied by user"
DeniedWriteRecorded ==
    /\ fs = last_exec.fs_before /\ last_exec.out.effect = "none"
    /\ ~last_exec.out.handler_ran
    /\ messages = last_iter.before \o
          <<Msg("assistant", RWrite.text),
            Msg("user", "Tool results:\n[write_file] Error: Denied by user")>>

\* C11 as stated (SpecLoop): when a response holds one write_file call and the
\* gate denies it, no file is written, the appended user turn holds "Denied by
\* user", and the loop goes on to another backend call instead of returning.
C11_DeniedContinues ==
    DeniedWriteIteration => (DeniedWriteRecorded /\ pc = "loop")

\* C11 amended (SpecLoop): ... and the loop goes on to another backend call,
\* unless the denied call came in the 15th iteration, after which agent_loop
\* returns at the cap.
C11_DeniedContinuesBelowCap ==
    DeniedWriteIteration =>
        /\ DeniedWriteRecorded
        /\ pc = IF loop_i < MAX_TOOL_LOOPS THEN "loop" ELSE "returned"
        /\ (pc = "loop") => backend_calls = loop_i /\ tools = <<>>

\* C11 witness: a write denied in a middle iteration, the loop still running
C11_DeniedInMiddle ==
    /\ DeniedWriteIteration /\ pc = "loop"
    /\ loop_i > 1 /\ loop_i < MAX_TOOL_LOOPS
    /\ LastMessage.content = "Tool results:\n[write_file] Error: Denied by user"

\* the conversation handed to trim_context, by position
SystemPositions == {p \in 1..Len(messages) : messages[p].role = "system"}
OtherPositions == (1..Len(messages)) \ SystemPositions
\* the number of non-system messages up to position p
OtherRank(p) == Cardinality({q \in OtherPositions : q <= p})
KeepCount ==
    IF MAX_CONTEXT_MESSAGES - Cardinality(SystemPositions) >= 2
    THEN MAX_CONTEXT_MESSAGES - Cardinality(SystemPositions) ELSE 2
\* the positions of the system messages and of the KeepCount most recent others
KeptPositions ==
    SystemPositions \cup
    {p \in OtherPositions : OtherRank(p) > Cardinality(OtherPositions) - KeepCount}
PositionOf(m) == CHOOSE p \in 1..Len(messages) : messages[p] = m

\* C12 (SpecTrim): for a conversation of more than 40 messages trim_context
\* returns all system messages, then the most recent max(40 - system_count, 2)
\* non-system messages, each group in its original order, and drops exactly the
\* older non-system messages; 1 system and 50 other messages give the system
\* message and the 39 most recent others, the oldest 11 dropped.
C12_TrimKeepsRecent ==
    (pc = "trimmed" /\ Len(messages) > MAX_CONTEXT_MESSAGES) =>
        /\ {sent[i] : i \in 1..Len(sent)} = {messages[p] : p \in KeptPositions}
        /\ Len(sent) = Cardinality(KeptPositions)
        /\ \A i \in 1..Len(sent) :
              (i <= Cardinality(SystemPositions)) <=> (sent[i].role = "system")
        /\ \A i, j \in 1..Len(sent) :
              (i < j /\ (sent[i].role = "system") = (sent[j].role = "system")) =>
                  PositionOf(sent[i]) < PositionOf(sent[j])
        /\ (Cardinality(SystemPositions) = 1 /\ Cardinality(OtherPositions) = 50) =>
              /\ sent = SysMsgs(1) \o SubSeq(OtherMsgs(50), 12, 50)
              /\ \A k \in 1..11 : \A i \in 1..Len(sent) : sent[i] # OtherMsgs(50)[k]

\* C12 witness: 1 system message among 50 others was trimmed to 40 messages
C12_FiftyTrimmed ==
    /\ pc = "trimmed" /\ Len(messages) = 51 /\ Len(sent) = MAX_CONTEXT_MESSAGES
    /\ Cardinality(SystemPositions) = 1
    /\ messages[1].role # "system"
    /\ sent[1].role = "system" /\ sent[2].content = "m12"

SystemsSent == Len(SelectSeq(sent, IsSystem))

\* C13 as stated (Spec): every conversation agent_loop passes to the backend
\* holds at most 40 messages, whatever stored conversation it started from.
C13_AtMostForty == Len(sent) <= MAX_CONTEXT_MESSAGES

\* C13 amended (Spec): every conversation passed to the backend holds at most
\* 40 messages when it holds at most 38 system messages; one with more system
\* messages holds all of them and at most 2 other messages.
C13_AtMostFortyOrSystemsPlusTwo ==
    /\ (SystemsSent <= MAX_CONTEXT_MESSAGES - 2) => Len(sent) <= MAX_CONTEXT_MESSAGES
    /\ (SystemsSent > MAX_CONTEXT_MESSAGES - 2) => Len(sent) <= SystemsSent + 2

\* C13 witness: a loaded conversation of 45 messages plus the user turn was
\* sent as 40 messages
C13_LongConversationSent ==
    /\ pc \in {"tools", "returned"} /\ Len(turn_start) > MAX_CONTEXT_MESSAGES + 4
    /\ SystemsSent = 1 /\ Len(sent) = MAX_CONTEXT_MESSAGES

\* C14 as stated (Spec): in every state of a session the stored conversation
\* is non-empty and its first message is the system prompt.
C14_FirstIsSystemPrompt ==
    /\ messages # <<>>
    /\ messages[1].role = "system"

\* C15 as stated (Spec): apart from /reset and /load the stored conversation
\* only grows by appending: when agent_loop returns, every message that was in
\* the conversation it was called with is still there, at the same position.
C15_AppendOnly ==
    (pc = "returned") =>
        /\ Len(turn_start) <= Len(messages)
        /\ \A i \in 1..Len(turn_start) : messages[i] = turn_start[i]

\* the calls the last iteration executed, in execution order
ExecutedCalls == [i \in 1..Len(last_iter.log) |-> last_iter.log[i].call]
IsFenceOrTagMatch(seg) == IsFenceMatch(seg) \/ IsTagMatch(seg)
\* the distinct fenced and tagged tool calls of a response, in text order
CallsInTextOrder(resp) == AddAll(NoTools, SelectSeq(resp.segs, IsFenceOrTagMatch)).tools

\* C16 as stated (SpecLoop): the tool calls of a response are executed one
\* after another in the order in which they stand in the response text, also
\* when the response holds both fenced blocks and <tool> pairs.
C16_TextOrder ==
    (last_iter.kind = "tools" /\ CallsInTextOrder(response) # <<>>) =>
        ExecutedCalls = CallsInTextOrder(response)

Extracted == pc = "extracted"
Segs == response.segs
InTools(call) == \E j \in 1..Len(tools) : tools[j] = call
\* a candidate whose body is a JSON object with a non-empty tool name
ValidCall(seg) ==
    seg.json = "object" /\ seg.call.tool.t = "str" /\ seg.call.tool.s # ""
\* a fenced block tagged json or not tagged
JsonFence(seg) == seg.kind = "fence" /\ seg.lang \in {"json", ""}
\* a fenced block with another tag
OtherFence(seg) == seg.kind = "fence" /\ seg.lang \notin {"json", ""}
\* a valid call in a json or untagged fence or in a <tool> pair
FencedOrTagged(seg) == ValidCall(seg) /\ (JsonFence(seg) \/ seg.kind = "tag")
SomeFencedOrTagged == \E i \in 1..Len(Segs) : FencedOrTagged(Segs[i])
\* the position at which a payload first stands in the text
FirstOccurrence(call) == CHOOSE i \in 1..Len(Segs) :
    /\ Segs[i].call = call
    /\ \A k \in 1..(i - 1) : Segs[k].call # call

\* C17 (SpecExtract): for a text whose candidates are all well-formed fenced
\* JSON tool blocks, extract_tool_calls returns every payload exactly once, in
\* the order of first occurrence; blocks with the same payload, also written
\* with their keys in another order, give one entry.
C17_FirstOccurrenceOrder ==
    (Extracted /\ \A i \in 1..Len(Segs) : ValidCall(Segs[i]) /\ JsonFence(Segs[i])) =>
        /\ \A i \in 1..Len(Segs) : InTools(Segs[i].call)
        /\ \A j \in 1..Len(tools) : \E i \in 1..Len(Segs) : Segs[i].call = tools[j]
        /\ \A j, k \in 1..Len(tools) : j < k =>
              /\ tools[j] # tools[k]
              /\ FirstOccurrence(tools[j]) < FirstOccurrence(tools[k])

\* C17 witness: the same payload twice, the second time with swapped keys
C17_SwappedDuplicate ==
    /\ Extracted
    /\ Segs = <<SFenceReadA, SFenceReadD, SFenceReadASwapped>>
    /\ tools = <<CallReadA, CallReadD>>

\* C18 as stated (SpecExtract): a fenced block whose body is a JSON object
\* with a non-empty tool field is extracted whatever its language tag.
C18_AnyTagExtracted ==
    Extracted =>
        \A i \in 1..Len(Segs) :
            (Segs[i].kind = "fence" /\ ValidCall(Segs[i])) => InTools(Segs[i].call)

\* C19 as stated (SpecExtract): a bare JSON tool object that is the only tool
\* call of the text is extracted whole, up to the brace that closes it, also
\* when it holds nested objects.
C19_BareExtractedWhole ==
    (/\ Extracted /\ Len(Segs) = 1
     /\ Segs[1].kind = "bare" /\ ValidCall(Segs[1]) /\ Segs[1].tool_first) =>
        tools = <<Segs[1].call>>

\* what the fenced-block scan and the <tool> scan (steps 1 and 2) found
FoundBySteps12 == Scan(2, Scan(1, NoTools, Segs, 1), Segs, 1).tools

\* C20 (SpecExtract): when steps 1 and 2 found at least one call, every
\* extracted call comes from a json or untagged fence or a <tool> pair: a bare
\* tool object elsewhere in the text is not extracted.
C20_BareOnlyWhenNothingFound ==
    (Extracted /\ FoundBySteps12 # <<>>) =>
        \A j \in 1..Len(tools) :
            \E i \in 1..Len(Segs) : FencedOrTagged(Segs[i]) /\ Segs[i].call = tools[j]

\* C20 witness: a bare object after a fenced call was left out
C20_BareLeftOut ==
    /\ Extracted
    /\ Segs = <<SFenceReadD, SBareReadA>>
    /\ tools = <<CallReadD>>

\* a candidate that is dropped: not JSON, not an object, or without a tool name
Malformed(seg) == ~ValidCall(seg)

\* C21 as stated (SpecExtract): a malformed candidate is dropped and the scan
\* goes on: every valid call that stands in a json or untagged fence or in a
\* <tool> pair, before or after a malformed candidate, is returned, and no
\* malformed candidate is.
C21_MalformedDropped ==
    (Extracted /\ \E k \in 1..Len(Segs) : Malformed(Segs[k])) =>
        /\ \A i \in 1..Len(Segs) : FencedOrTagged(Segs[i]) => InTools(Segs[i].call)
        /\ \A j \in 1..Len(tools) :
              \E i \in 1..Len(Segs) : ValidCall(Segs[i]) /\ Segs[i].call = tools[j]

\* C22 as stated (SpecExec): every ToolResult that execute_tool returns holds
\* an error text when ok is false and a result text when ok is true, whatever
\* the tool and the outcome (a run_command that exits with a non-zero code
\* included).
C22_ResultOrErrorText ==
    (pc = "returned" /\ ~last_exec.out.raised) =>
        LET res == last_exec.out.res
        IN  IF res.ok THEN res.result # ABSENT ELSE res.error # ABSENT

\* the last call was a todo call with this action, and it returned
TodoDone(action) ==
    /\ pc = "todo" /\ last_exec.call.dict
    /\ last_exec.call.tool = JStr("todo") /\ last_exec.call.action = JStr(action)

\* C23 (SpecTodo): the task list is absent or holds at most 8 tasks; after a
\* create with a non-empty task list the list is the given title (or "Task
\* Plan") and the first 8 given tasks, none done, whatever it held before.
C23_CappedAndReplaced ==
    /\ session_todo.present => Len(session_todo.tasks) <= 8
    /\ (TodoDone("create") /\ last_exec.call.tasks # <<>>) =>
          LET given == last_exec.call.tasks
              t == last_exec.call.title
          IN  /\ last_exec.out.res.ok
              /\ session_todo.present
              /\ session_todo.title = IF t = JAbsent THEN "Task Plan" ELSE t.s
              /\ Len(session_todo.tasks) = Min(8, Len(given))
              /\ \A i \in 1..Len(session_todo.tasks) :
                    session_todo.tasks[i] = [task |-> given[i], done |-> FALSE]

\* C23 witness: a create with more than 8 tasks replaced a list with another
\* title and a task done
C23_LongListReplaces ==
    /\ TodoDone("create") /\ Len(last_exec.call.tasks) > 8
    /\ last_exec.todo_before.present
    /\ last_exec.todo_before.title # session_todo.title
    /\ \E i \in 1..Len(last_exec.todo_before.tasks) : last_exec.todo_before.tasks[i].done
    /\ Len(session_todo.tasks) = 8

\* the indices of a list of indices
IndexSet(indices) == {indices[k] : k \in 1..Len(indices)}

\* the tasks a call turned from not done to done
Toggled(before, after) ==
    {i \in 1..Len(before.tasks) : ~before.tasks[i].done /\ after.tasks[i].done}

\* C24 as stated (SpecTodo): a check on an existing list marks done exactly
\* the tasks whose 1-based index is given and in range, leaves the rest of the
\* list as it was, and reports the number of tasks it turned from not done to
\* done.
C24_CheckCountsToggled ==
    (TodoDone("check") /\ last_exec.out.res.ok) =>
        LET before == last_exec.todo_before
            after == session_todo
        IN  /\ after.present /\ after.title = before.title
            /\ Len(after.tasks) = Len(before.tasks)
            /\ \A i \in 1..Len(after.tasks) :
                  /\ after.tasks[i].task = before.tasks[i].task
                  /\ after.tasks[i].done <=>
                        (before.tasks[i].done \/ i \in IndexSet(last_exec.call.indices))
            /\ last_exec.out.res.result =
                  "Checked off " \o ToString(Cardinality(Toggled(before, after)))
                  \o " task(s)"

\* the last call was a check, show or clear made while no list existed
OnAbsentList ==
    /\ last_exec.call.dict /\ last_exec.call.tool = JStr("todo")
    /\ last_exec.call.action \in {JStr("check"), JStr("show"), JStr("clear")}
    /\ ~last_exec.todo_before.present

\* C25 (SpecTodo): check, show and clear on an absent list return a result
\* without raising and leave the list absent, check with ok false; right
\* after a /reset (and before the first call) the list is absent.
C25_AbsentListHandled ==
    /\ OnAbsentList =>
          /\ pc = "todo" /\ ~last_exec.out.raised
          /\ ~session_todo.present
          /\ last_exec.out.res.ok <=> last_exec.call.action # JStr("check")
          /\ last_exec.call.action = JStr("check") =>
                last_exec.out.res.error = "No TODO list exists"
    /\ last_exec = NoExec => session_todo = NoTodo

\* C25 witness: a check with indices on an absent list was refused
C25_CheckOnAbsent ==
    /\ OnAbsentList /\ last_exec.call.action = JStr("check")
    /\ last_exec.call.indices = <<1, 5>>
    /\ ~last_exec.out.res.ok /\ ~session_todo.present

\* C26 as stated (SpecRead): read_file without a line range on a file larger
\* than 500,000 bytes returns ok with truncated = true and exactly the first
\* 500,000 bytes of the content.
C26_LargeFileTruncated ==
    (/\ pc = "returned" /\ last_exec.call.path = JStr("/w/a")
     /\ last_exec.env = "ok" /\ Size(fs["/w/a"]) > MAX_FILE_SIZE) =>
        /\ last_exec.out.res.ok /\ last_exec.out.res.truncated
        /\ last_exec.out.res.result = Slice(fs["/w/a"], MAX_FILE_SIZE)

\* find stands in content at position i
OccursAt(content, find, i) ==
    /\ i >= 1 /\ i + Len(find) - 1 <= Len(content)
    /\ \A k \in 1..Len(find) : content[i + k - 1] = find[k]
Occurs(content, find) == find # <<>> /\ \E i \in 1..Len(content) : OccursAt(content, find, i)
\* content with the occurrence of find that no other occurrence precedes
\* replaced by repl
FirstReplaced(content, find, repl) ==
    LET i == CHOOSE j \in 1..Len(content) :
                 /\ OccursAt(content, find, j)
                 /\ \A k \in 1..(j - 1) : ~OccursAt(content, find, k)
    IN  [k \in 1..(Len(content) - Len(find) + Len(repl)) |->
            IF k < i THEN content[k]
            ELSE IF k < i + Len(repl) THEN repl[k - i + 1]
            ELSE content[k - Len(repl) + Len(find)]]
\* the content after each edit of the list, and which edits matched
EditRun(content, edits) ==
    LET run[k \in 0..Len(edits)] ==
            IF k = 0 THEN content
            ELSE IF Occurs(run[k - 1], edits[k].find)
                 THEN FirstReplaced(run[k - 1], edits[k].find, edits[k].replace)
                 ELSE run[k - 1]
    IN  [final |-> run[Len(edits)],
         matched |-> {k \in 1..Len(edits) : Occurs(run[k - 1], edits[k].find)}]

\* an edit_file call on the file /w/a that reached the handler's loop
EditRan ==
    /\ pc = "returned" /\ last_exec.out.handler_ran /\ last_exec.env = "ok"
    /\ last_exec.call.tool = JStr("edit_file") /\ last_exec.call.path = JStr("/w/a")
    /\ last_exec.call.edits # <<>> /\ last_exec.fs_before["/w/a"].kind = "file"

\* C27 (SpecEdit): edit_file applies the edits in list order to the running
\* content, each replacing the first occurrence of its find text; it counts
\* the edits that matched and succeeds exactly when the count is at least 1;
\* when no edit matches it returns an error and leaves the file unchanged.
C27_EditsInOrder ==
    EditRan =>
        LET r == EditRun(last_exec.fs_before["/w/a"].content, last_exec.call.edits)
            n == Cardinality(r.matched)
        IN  /\ last_exec.out.res.ok <=> n >= 1
            /\ n >= 1 =>
                  /\ fs["/w/a"] = File(r.final)
                  /\ last_exec.out.res.result =
                        "Edited: /w/a (" \o ToString(n) \o " changes)"
            /\ n = 0 =>
                  /\ fs = last_exec.fs_before
                  /\ last_exec.out.res.error = "No matches found"

\* C27 witness: a -> b on "a a" gave "b a" with one change
C27_FirstOccurrenceOnly ==
    /\ EditRan
    /\ last_exec.fs_before["/w/a"].content = <<"a", " ", "a">>
    /\ last_exec.call.edits = <<[find |-> <<"a">>, replace |-> <<"b">>]>>
    /\ fs["/w/a"].content = <<"b", " ", "a">>
    /\ last_exec.out.res.result = "Edited: /w/a (1 changes)"

\* a patch_file call on the file /w/a that reached the handler's loop
PatchRan ==
    /\ pc = "returned" /\ last_exec.out.handler_ran /\ last_exec.env = "ok"
    /\ last_exec.call.tool = JStr("patch_file") /\ last_exec.call.path = JStr("/w/a")
    /\ last_exec.call.patches # <<>> /\ last_exec.fs_before["/w/a"].kind = "file"

\* the lines of the original file, each ended by a newline
OriginalLines == PatchLines(last_exec.fs_before["/w/a"].content)
WithNewline(cs) == IF cs # <<>> /\ cs[Len(cs)] # "\n" THEN Append(cs, "\n") ELSE cs

\* what one patch makes of the original line it names
Block(patch, line) ==
    CASE patch.action = "delete" -> <<>>
      [] patch.action = "replace" -> <<WithNewline(patch.content)>>
      [] patch.action = "insert_after" -> <<line, WithNewline(patch.content)>>
      [] OTHER -> <<WithNewline(patch.content), line>>

\* the file in which every patch acted on the original line its number names:
\* line by line the block of the patch naming it (the line itself when no patch
\* names it), then the content of an insert that names the line after the last
ExpectedLines(orig, patches) ==
    LET n == Len(orig)
        Named(i) == {k \in 1..Len(patches) : patches[k].line = i}
        BlockAt(i) == IF Named(i) = {} THEN <<orig[i]>>
                      ELSE Block(patches[CHOOSE k \in Named(i) : TRUE], orig[i])
        tail == IF \E k \in Named(n + 1) : patches[k].action # "delete"
                     /\ patches[k].action # "replace"
                THEN <<WithNewline(patches[CHOOSE k \in Named(n + 1) : TRUE].content)>>
                ELSE <<>>
        blocks[i \in 0..n] == IF i = 0 THEN <<>> ELSE blocks[i - 1] \o BlockAt(i)
    IN  blocks[n] \o tail

DistinctLines(patches) ==
    \A j, k \in 1..Len(patches) : j # k => patches[j].line # patches[k].line

\* the patches listed in another order
Reordered(patches) ==
    {[k \in 1..Len(patches) |-> patches[pi[k]]] :
        pi \in {q \in [1..Len(patches) -> 1..Len(patches)] :
                   \A j, k \in 1..Len(patches) : j # k => q[j] # q[k]}}

\* the file that the same call leaves when its patches are listed as ps
PatchedWith(ps) ==
    patch_file([last_exec.call EXCEPT !.patches = ps], last_exec.fs_before,
               last_exec.todo_before, "ok").fs["/w/a"]

\* C28 as stated (SpecPatch): the result of patch_file does not depend on the
\* order in which the patches are listed.
C28_OrderIndependent ==
    PatchRan => \A ps \in Reordered(last_exec.call.patches) : PatchedWith(ps) = fs["/w/a"]

\* C28 amended (SpecPatch): when no two patches name the same line, every
\* patch acts on the line that its number names in the original file, and the
\* result does not depend on the order in which the patches are listed.
C28_DistinctLinesOrderIndependent ==
    (PatchRan /\ DistinctLines(last_exec.call.patches)) =>
        /\ last_exec.out.res.ok
        /\ fs["/w/a"] = File(Concat(ExpectedLines(OriginalLines, last_exec.call.patches)))
        /\ \A ps \in Reordered(last_exec.call.patches) : PatchedWith(ps) = fs["/w/a"]

\* C28 witness: delete line 2 and replace line 1, listed in this order, on the
\* lines a, b, c gave X, c
C28_DeleteThenReplace ==
    /\ PatchRan
    /\ last_exec.fs_before["/w/a"].content = <<"a", "\n", "b", "\n", "c", "\n">>
    /\ last_exec.call.patches =
          <<[line |-> 2, action |-> "delete", content |-> <<>>],
            [line |-> 1, action |-> "replace", content |-> <<"X">>]>>
    /\ fs["/w/a"].content = <<"X", "\n", "c", "\n">>

\* C29 as stated (SpecSend): the credential list that chat_poe iterates never
\* holds more than 5 entries, whatever the credential storage contains, so one
\* chat_poe call makes at most 5 requests.
C29_AtMostFiveKeys ==
    /\ Len(keys) <= KEY_CAP
    /\ Len(attempts) <= KEY_CAP

\* the texts chat_poe may add to the last user message
DirectiveTexts ==
    {r \o v : r \in {""} \cup {" " \o Join(ReasoningFlags(m), " ") :
                                   m \in {k \in ModelKeys : ReasoningFlags(k) # <<>>}},
              v \in {"", VERBOSE_PROMPT}}

\* the requests carry the stored conversation, the last message possibly
\* extended by directives, and only when it is a user message and a flag is set
SentIsExtendedCopy ==
    /\ Len(poe_msgs) = Len(messages)
    /\ \A i \in 1..Len(messages) :
         /\ poe_msgs[i].role = messages[i].role
         /\ i < Len(messages) => poe_msgs[i].content = messages[i].content
    /\ \E d \in DirectiveTexts :
         poe_msgs[Len(messages)].content = messages[Len(messages)].content \o d
    /\ poe_msgs # messages =>
         LastIsUser(messages) /\ (settings.experiments.reasoning \/ settings.experiments.verbose)

\* C30 (SpecSend): chat_poe leaves the caller's conversation unchanged: no step
\* of a call, whatever the flags, the model key and the outcome, changes a role
\* or a content of the stored conversation, and the added directives appear
\* only in the copy that is sent.
C30_ConversationUnchanged ==
    /\ [](pc \in {"poe_loop", "poe_done"} /\ keys # <<>> => SentIsExtendedCopy)
    /\ [][messages' = messages]_vars

\* C30 witness: a call with model key opus and both flags set has answered;
\* the requests carried both directives and the stored message is still "hi"
C30_DirectivesOnlySent ==
    /\ pc = "poe_done" /\ poe_result.ok
    /\ settings = Settings("opus", TRUE, TRUE)
    /\ messages = <<Msg("system", SYSTEM_PROMPT), Msg("user", "hi")>>
    /\ poe_msgs[2].content =
          "hi --thinking_budget 24000 --web_search true" \o VERBOSE_PROMPT

\* C31 as stated (SpecShimmer): when the main thread inspects the result of
\* a backend call and prints, in every interleaving, the indicator thread has
\* been signaled and has made its last write to the terminal (its line erased).
C31_IndicatorDoneBeforeInspect ==
    pc \in {"think_inspect", "think_done"} => stop /\ shim_pc = "done"

\* a call of SpecPrompt has been made and it showed a prompt
Prompted == last_exec # NoExec /\ last_exec.out.prompted

\* the prompt of the last call was left by escape, q, Ctrl-C or end of input
Escaped == Prompted /\ last_exec.pressed[Len(last_exec.pressed)] # "enter"

\* C32 (SpecPrompt): an 'allow once' answer permits only the call it was asked
\* for: the call runs and the trust flag stays unset, so the next destructive
\* call prompts again; an escaped or cancelled prompt counts as deny.
C32_AllowOnceAndEscape ==
    /\ [](/\ (Prompted /\ last_exec.answer = "Yes") =>
               last_exec.out.handler_ran /\ ~trust_session
          /\ Escaped =>
               /\ ~last_exec.out.handler_ran
               /\ ~last_exec.out.res.ok
               /\ last_exec.out.res.error = "Denied by user"
               /\ fs = last_exec.fs_before
               /\ ~trust_session)
    /\ [][(Prompted /\ last_exec.answer \in {"Yes", "Esc"}
           /\ IsDestructive(last_exec'.call.tool)) => last_exec'.out.prompted]_vars

\* C32 witness: a write was allowed once after moving down and back up, and
\* the flag is still unset
C32_AllowedOnce ==
    /\ Prompted
    /\ IsTool(last_exec.call.tool, "write_file")
    /\ last_exec.pressed = <<"down", "up", "enter">>
    /\ last_exec.answer = "Yes"
    /\ last_exec.out.handler_ran
    /\ ~trust_session

\* the tool phase of the iteration is over
ToolsOver == last_iter.kind \in {"tools", "raised"}

\* C33 as stated (SpecIter): within one response that holds several tool calls,
\* a denied or failed call does not end the iteration: every call of the
\* response is executed and has its own entry in the synthetic turn, and every
\* destructive call made while trust is not set is prompted for on its own.
C33_LaterCallsRun ==
    /\ [](ToolsOver =>
            /\ last_iter.execs = last_iter.k
            /\ Len(last_iter.log) = last_iter.k
            /\ LastMessage = Msg("user", "Tool results:\n" \o Join(LoggedEntries, "\n\n")))
    /\ [][(pc = "tools" /\ pc' # "raised" /\ ~trust_session
           /\ IsDestructive(Head(tools).tool)) => last_exec'.out.prompted]_vars

\* a step that makes one execute_tool call (recorded in last_exec'), and a
\* step that is a /reset
CallStep == pc = "call" /\ pc' \in {"returned", "raised"}
ResetStep == pc = "call" /\ pc' = "call"
\* the call names read_file, list_dir, search_file, todo or an unknown tool
Ungated(call) ==
    /\ call.dict /\ call.tool.t = "str"
    /\ call.tool.s \in {"read_file", "list_dir", "search_file", "todo", "bogus"}

\* C34 (SpecExecReset): execute_tool for read_file, list_dir, search_file, todo
\* or an unknown tool name shows no permission prompt and leaves the trust flag
\* alone; the trust flag is set only by a 'Trust' answer and unset only by
\* /reset, and the task list changes only by a todo call and by /reset.
C34_GlobalsWriters ==
    /\ [][(CallStep /\ Ungated(last_exec'.call)) =>
            ~last_exec'.out.prompted /\ trust_session' = trust_session]_vars
    /\ [][trust_session' # trust_session =>
            IF trust_session'
            THEN CallStep /\ last_exec'.out.prompted /\ last_exec'.answer = "Trust"
            ELSE ResetStep]_vars
    /\ [][session_todo' # session_todo =>
            \/ CallStep /\ IsTool(last_exec'.call.tool, "todo")
            \/ ResetStep]_vars

\* C34 witness: a todo create call made without trust replaced the task list
\* with no prompt shown, and the trust flag is still unset
C34_TodoUnprompted ==
    /\ pc = "returned"
    /\ IsTool(last_exec.call.tool, "todo")
    /\ last_exec.call.action = JStr("create")
    /\ ~last_exec.trust_before /\ ~last_exec.out.prompted
    /\ session_todo # last_exec.todo_before
    /\ ~trust_session

\* C35 (SpecTrim): trim_context is idempotent and leaves short conversations
\* alone: trimming the result of a trim returns that result, and a list of at
\* most 40 messages comes back as the same list in the same order.
C35_TrimIdempotent ==
    /\ [](pc = "trimmed" /\ Len(messages) <= MAX_CONTEXT_MESSAGES => sent = messages)
    /\ [][(pc = "trim" /\ sent = messages) => sent' = sent]_vars

\* C35 witness: the result of a trim, still longer than 40 messages, was
\* trimmed again and came back unchanged
C35_LongResultTrimmedAgain ==
    /\ pc = "trimmed"
    /\ sent = messages
    /\ Len(messages) > MAX_CONTEXT_MESSAGES

\* the last patch_file call applied none of its patches
NoPatchApplied ==
    /\ PatchRan /\ last_exec.out.res.ok
    /\ last_exec.out.res.result = "Patched: /w/a (0 changes)"

\* C36 as stated (SpecPatch): a patch_file call in which no patch applies leaves
\* the content of the file exactly as it was before the call.
C36_NoChangesKeepsContent ==
    NoPatchApplied => fs["/w/a"].content = last_exec.fs_before["/w/a"].content

\* the step is a todo call of the given action
TodoStep(action) ==
    /\ CallStep /\ IsTool(last_exec'.call.tool, "todo")
    /\ last_exec'.call.action = JStr(action)

\* the step may take marks away: a create that is given tasks, a clear, /reset
RemovingStep ==
    \/ TodoStep("create") /\ last_exec'.call.tasks # <<>>
    \/ TodoStep("clear")
    \/ ResetStep

\* C37 (SpecExecReset): a task that has been marked done stays done, in its
\* place and with its text, through check and show actions and other tool
\* calls; only create, clear or /reset remove the mark, and a failed create
\* (no tasks given) leaves the existing list unchanged.
C37_DoneStaysDone ==
    /\ [][~RemovingStep =>
            \A i \in 1..Len(session_todo.tasks) :
               session_todo.tasks[i].done =>
                  /\ session_todo'.present /\ i <= Len(session_todo'.tasks)
                  /\ session_todo'.tasks[i] = session_todo.tasks[i]]_vars
    /\ [][(TodoStep("create") /\ last_exec'.call.tasks = <<>>) =>
            /\ ~last_exec'.out.res.ok
            /\ session_todo' = session_todo]_vars

\* C37 witness: a check that names a task already done was made, and the
\* task is still done
C37_CheckedAgain ==
    /\ pc = "returned"
    /\ IsTool(last_exec.call.tool, "todo") /\ last_exec.call.action = JStr("check")
    /\ last_exec.call.indices = <<1, 5>>
    /\ last_exec.todo_before.present /\ last_exec.todo_before.tasks[1].done
    /\ session_todo.tasks[1].done

\* C38 (Spec): every backend call that agent_loop makes when it is driven from
\* main receives a conversation whose last message has role user: the user's
\* input on the first iteration and the synthetic tool-results turn on every
\* later one, also after trimming.
C38_SentEndsWithUserTurn ==
    /\ [](sent # <<>> => sent[Len(sent)].role = "user")
    /\ [][backend_calls' = backend_calls + 1 =>
            sent'[Len(sent')] =
               IF loop_i = 0 THEN Msg("user", user_message("hi", settings))
               ELSE Msg("user", "Tool results:\n" \o Join(tool_results, "\n\n"))]_vars

\* C38 witness: the second backend call of a turn that started with more than
\* 40 messages received a trimmed conversation ending with the tool results
C38_TrimmedSecondCall ==
    /\ backend_calls = 2
    /\ Len(turn_start) > MAX_CONTEXT_MESSAGES
    /\ Len(sent) = MAX_CONTEXT_MESSAGES
    /\ sent[Len(sent)].role = "user"
    /\ sent[Len(sent)].content \notin {"hi", "hi" \o PLANNING_HINT}

====
